---- MODULE Spec2Model ----
(***************************************************************************)
(* State-machine model of the GUSLI block-storage backend of NIXL:         *)
(* the device handle table (bdevOpen/bdevClose behind registerMem and      *)
(* deregisterMem), the request classifier (prepXfer), the single-device    *)
(* and the compound operation node (exec, pollStatus, completion           *)
(* callback) and releaseReqH.                                              *)
(*                                                                         *)
(* Descriptor lists and the child vector are functions on 0..n-1, as the   *)
(* C++ containers are indexed.                                             *)
(***************************************************************************)
EXTENDS Integers, Sequences, FiniteSets, TLC

(***************************************************************************)
(* Bounds of the model                                                     *)
(***************************************************************************)
\* longest descriptor list handed to prepXfer when requests are also executed
MaxRanges == 3
\* longest descriptor list handed to prepXfer when only the classifier runs
MaxRangesWide == 5
\* most registrations outstanding for one device and memory type
MaxRegs == 2
\* highest reference count of a device handle
MaxRefs == 3
\* most native I/Os in the air whose node has been deleted
MaxInAir == 2

(***************************************************************************)
(* Program constants                                                       *)
(***************************************************************************)
UUID_LOCAL_FILE_0 == 11
UUID_K_DEV_ZERO_1 == 14
\* sizeof(gusli::io_map_t): ptr + byte_len + offset_lba_bytes
EntrySize == 24
\* sizeof(gusli::io_multi_map_t): the header in front of entries[]
HdrSize == 8
\* sizeof(io_multi_map_t::n_entries), a u32
NEntriesSize == 4

DevIds == {UUID_LOCAL_FILE_0, UUID_K_DEV_ZERO_1}
MemTypes == {"DRAM_SEG", "BLK_SEG", "VRAM_SEG"}
XferOps == {"NIXL_READ", "NIXL_WRITE"}

\* gusli::connect_rv, every code other than the three named ones is C_OTHER
ConnectRvs == {"C_OK", "C_NO_DEVICE", "C_WRONG_ARGUMENTS", "C_OTHER"}
\* gusli::io_error_codes, every code other than the three named ones is E_OTHER
IoCodes == {"E_OK", "E_IN_TRANSFER", "E_INVAL_PARAMS", "E_OTHER"}
\* codes a native I/O can finish with
DoneCodes == IoCodes \ {"E_IN_TRANSFER"}

(***************************************************************************)
(* State                                                                   *)
(***************************************************************************)
VARIABLES
    bdevs_,    \* hash of open block devices: devId -> [ref_count, bi]
    mds,       \* registrations returned by registerMem and not yet deregistered
    handle,    \* the request handle the caller holds (NullH or a node)
    args,      \* the arguments of the last prepXfer call (the caller's lists)
    sgMem,     \* what the last prepXfer wrote at local[0].addr
    rv,        \* the last engine call, the status it returned and the number of
               \* child pollStatus calls it made
    pollSt,    \* position of the caller inside a running exec or pollStatus
    crashed,   \* the process died on undefined behaviour
    ram,       \* content of the caller's buffer, one value per local range
    disk,      \* content of the block devices, one value per device range
    phase,     \* where the caller is in its write, clear, read and verify run
    inAir,     \* native I/Os still in the air whose node has been deleted
    cbPc       \* per native request of the node: position of its running
               \* completion callback, 0 when none runs

vars == <<bdevs_, mds, handle, args, sgMem, rv, pollSt, crashed,
          ram, disk, phase, inAir, cbPc>>
\* what the engine calls themselves never touch
envVars == <<ram, disk, phase, inAir, cbPc>>

NullH == [kind |-> "null"]
NoArgs == [op |-> "none", localType |-> "DRAM_SEG", remoteType |-> "BLK_SEG",
           local |-> <<>>, remote |-> <<>>, opt_args |-> [null |-> TRUE, customParam |-> <<>>]]
CleanMem == [n_entries |-> 0, entries |-> <<>>, wrEnd |-> 0, oob |-> FALSE]
NoCall == [call |-> "none", status |-> "NIXL_SUCCESS", polls |-> 0]
PollIdle == [pc |-> "idle", i |-> 0]
\* the native requests of a node: request 0 of a single-device node, request
\* j of sub-io j of a compound node
Slots == 0..(MaxRanges - 1)
CbIdle == [j \in Slots |-> 0]

\* the caller's buffer holds one range per descriptor index and every device
\* one range per index behind the byte offset; a range is moved as a whole, 0
\* is the content of a cleared range
RamAddrs == {4096 * (i + 1) : i \in 0..(MaxRangesWide - 1)}
Lbas == {1048576 + 512 * i : i \in 0..(MaxRangesWide - 1)}
Gids == {d - 8 : d \in DevIds}
ZeroRam == [a \in RamAddrs |-> 0]
ZeroDisk == [g \in Gids, l \in Lbas |-> 0]

descCount(l) == Cardinality(DOMAIN l)

(***************************************************************************)
(* Native library: device information and connection error conversion      *)
(***************************************************************************)
\* lib_->bdev_get_info: the descriptor the library assigned to the device
bdev_get_info(devId) == [bdev_descriptor |-> devId - 8]

conErrConv(r) ==
    IF r = "C_OK" THEN "NIXL_SUCCESS"
    ELSE IF r = "C_NO_DEVICE" THEN "NIXL_ERR_NOT_FOUND"
    ELSE IF r = "C_WRONG_ARGUMENTS" THEN "NIXL_ERR_INVALID_PARAM"
    ELSE "NIXL_ERR_BACKEND"

(***************************************************************************)
(* Device handle table                                                     *)
(***************************************************************************)
\* the device is connected again by every open
bdevOpen_reconnect(tbl, devId, connectRv) ==
    IF devId \in DOMAIN tbl
    THEN [status |-> "NIXL_SUCCESS",
          tbl |-> [tbl EXCEPT ![devId].ref_count = @ + 1],
          native |-> <<"bdev_connect">>]
    ELSE IF connectRv # "C_OK"
    THEN [status |-> conErrConv(connectRv), tbl |-> tbl,
          native |-> <<"bdev_connect">>]
    ELSE [status |-> "NIXL_SUCCESS",
          tbl |-> [d \in (DOMAIN tbl) \cup {devId} |->
                     IF d = devId
                     THEN [ref_count |-> 1, bi |-> bdev_get_info(devId)]
                     ELSE tbl[d]],
          native |-> <<"bdev_connect">>]

\* the table after bdevOpen(devId), the status it returns and the native
\* connection calls it makes, given the result of the native connect
\* (consulted only when the device is absent)
bdevOpen(tbl, devId, connectRv) ==
    IF devId \in DOMAIN tbl
    THEN [status |-> "NIXL_SUCCESS",
          tbl |-> [tbl EXCEPT ![devId].ref_count = @ + 1],
          native |-> <<>>]
    ELSE IF connectRv # "C_OK"
    THEN [status |-> conErrConv(connectRv), tbl |-> tbl,
          native |-> <<"bdev_connect">>]
    ELSE [status |-> "NIXL_SUCCESS",
          tbl |-> [d \in (DOMAIN tbl) \cup {devId} |->
                     IF d = devId
                     THEN [ref_count |-> 1, bi |-> bdev_get_info(devId)]
                     ELSE tbl[d]],
          native |-> <<"bdev_connect">>]

\* the close of a device that is not in the table creates its entry and
\* takes a reference from it
closeNotOpened_counted(tbl, devId) ==
    [status |-> "NIXL_SUCCESS",
     tbl |-> [d \in (DOMAIN tbl) \cup {devId} |->
                IF d = devId THEN [ref_count |-> 0 - 1, bi |-> bdev_get_info(devId)]
                ELSE tbl[d]],
     native |-> <<>>]

\* bdevClose of a device that bdevs_.find does not find: a debug line, then
\* return NIXL_SUCCESS
closeNotOpened(tbl, devId) ==
    [status |-> "NIXL_SUCCESS", tbl |-> tbl, native |-> <<>>]

\* a failed disconnect leaves the entry in the table with the reference
\* count the decrement gave it
bdevClose_noRestore(tbl, devId, disconnectRv) ==
    IF devId \notin DOMAIN tbl
    THEN closeNotOpened(tbl, devId)
    ELSE IF tbl[devId].ref_count - 1 > 0
    THEN [status |-> "NIXL_SUCCESS",
          tbl |-> [tbl EXCEPT ![devId].ref_count = @ - 1],
          native |-> <<>>]
    ELSE IF disconnectRv # "C_OK"
    THEN [status |-> conErrConv(disconnectRv),
          tbl |-> [tbl EXCEPT ![devId].ref_count = @ - 1],
          native |-> <<"bdev_disconnect">>]
    ELSE [status |-> "NIXL_SUCCESS",
          tbl |-> [d \in (DOMAIN tbl) \ {devId} |-> tbl[d]],
          native |-> <<"bdev_disconnect">>]

\* the table after bdevClose(devId), the status it returns and the native
\* connection calls it makes, given the result of the native disconnect
\* (consulted only at the last reference)
bdevClose(tbl, devId, disconnectRv) ==
    IF devId \notin DOMAIN tbl
    THEN closeNotOpened(tbl, devId)
    ELSE IF tbl[devId].ref_count - 1 > 0
    THEN [status |-> "NIXL_SUCCESS",
          tbl |-> [tbl EXCEPT ![devId].ref_count = @ - 1],
          native |-> <<>>]
    ELSE IF disconnectRv # "C_OK"
    THEN [status |-> conErrConv(disconnectRv),
          tbl |-> [tbl EXCEPT ![devId].ref_count = (@ - 1) + 1],
          native |-> <<"bdev_disconnect">>]
    ELSE [status |-> "NIXL_SUCCESS",
          tbl |-> [d \in (DOMAIN tbl) \ {devId} |-> tbl[d]],
          native |-> <<"bdev_disconnect">>]

\* int32_t getGidOfBDev(devId): bdevs_.find(devId)->second.bi.bdev_descriptor.
\* For a device that is not in the table the iterator is end() and the
\* dereference is undefined: the process dies or an arbitrary value is read.
GarbageGids == {0} \cup {bdev_get_info(d).bdev_descriptor : d \in DevIds}
getGidOfBDev(tbl, devId) ==
    IF devId \in DOMAIN tbl
    THEN {[crash |-> FALSE, gid |-> tbl[devId].bi.bdev_descriptor]}
    ELSE {[crash |-> TRUE, gid |-> 0]}
         \cup {[crash |-> FALSE, gid |-> g] : g \in GarbageGids}

(***************************************************************************)
(* Memory registration                                                     *)
(***************************************************************************)
RegTypes == {"DRAM_SEG", "BLK_SEG"}

\* what a registration call returns: the status, the device of the call and
\* the native connection calls the call made, in order
RegRv(call, status, devId, native) ==
    [call |-> call, status |-> status, polls |-> 0, devId |-> devId, native |-> native]

\* a registration of block-device class opens its device as well
needsBdev_always(mem_type) == TRUE

\* registerMem and deregisterMem: if (mem_type == BLK_SEG) there is nothing
\* to do, else the device is opened or closed
needsBdev(mem_type) == (mem_type # "BLK_SEG")

\* registerMem(mem, mem_type, out): connectRv and regRv are the results of
\* the native connect and bdev_bufs_register, disconnectRv the result of the
\* native disconnect of the close that undoes the open
registerMem(devId, mem_type, connectRv, regRv, disconnectRv) ==
    /\ ~crashed
    /\ pollSt.pc = "idle"
    /\ mem_type \in RegTypes => mds[devId, mem_type] < MaxRegs
    /\ (mem_type = "DRAM_SEG" /\ devId \in DOMAIN bdevs_)
          => bdevs_[devId].ref_count < MaxRefs
    /\ IF mem_type \notin RegTypes
       THEN /\ rv' = RegRv("registerMem", "NIXL_ERR_NOT_SUPPORTED", devId, <<>>)
            /\ UNCHANGED <<bdevs_, mds>>
       ELSE IF ~needsBdev(mem_type)
       THEN /\ rv' = RegRv("registerMem", "NIXL_SUCCESS", devId, <<>>)
            /\ mds' = [mds EXCEPT ![devId, mem_type] = @ + 1]
            /\ UNCHANGED bdevs_
       ELSE LET o == bdevOpen(bdevs_, devId, connectRv) IN
            IF o.status # "NIXL_SUCCESS"
            THEN /\ rv' = RegRv("registerMem", o.status, devId, o.native)
                 /\ bdevs_' = o.tbl
                 /\ UNCHANGED mds
            ELSE IF regRv # "C_OK"
            THEN LET c == bdevClose(o.tbl, devId, disconnectRv) IN
                 /\ rv' = RegRv("registerMem", conErrConv(regRv), devId,
                                o.native \o c.native)
                 /\ bdevs_' = c.tbl
                 /\ UNCHANGED mds
            ELSE /\ rv' = RegRv("registerMem", "NIXL_SUCCESS", devId, o.native)
                 /\ bdevs_' = o.tbl
                 /\ mds' = [mds EXCEPT ![devId, mem_type] = @ + 1]
    /\ UNCHANGED <<handle, args, sgMem, pollSt, crashed>>
    /\ UNCHANGED envVars

\* deregisterMem(md) of an outstanding registration: the md is deleted
\* whatever the outcome; unregRv and disconnectRv are the native results
deregisterMem(devId, mem_type, unregRv, disconnectRv) ==
    /\ ~crashed
    /\ pollSt.pc = "idle"
    /\ mds[devId, mem_type] > 0
    /\ mds' = [mds EXCEPT ![devId, mem_type] = @ - 1]
    /\ IF ~needsBdev(mem_type)
       THEN /\ rv' = RegRv("deregisterMem", "NIXL_SUCCESS", devId, <<>>)
            /\ UNCHANGED bdevs_
       ELSE IF unregRv # "C_OK"
       THEN /\ rv' = RegRv("deregisterMem", conErrConv(unregRv), devId, <<>>)
            /\ UNCHANGED bdevs_
       ELSE LET c == bdevClose(bdevs_, devId, disconnectRv) IN
            /\ rv' = RegRv("deregisterMem", c.status, devId, c.native)
            /\ bdevs_' = c.tbl
    /\ UNCHANGED <<handle, args, sgMem, pollSt, crashed>>
    /\ UNCHANGED envVars

\* deregisterMem(nullptr)
deregisterMemNull ==
    /\ ~crashed
    /\ pollSt.pc = "idle"
    /\ rv' = RegRv("deregisterMem", "NIXL_ERR_INVALID_PARAM", 0, <<>>)
    /\ UNCHANGED <<bdevs_, mds, handle, args, sgMem, pollSt, crashed>>
    /\ UNCHANGED envVars

\* registerMem for the memory types of types; a native result is drawn only
\* where the call consults it
RegisterMemOn(types) ==
    \E devId \in DevIds, mem_type \in types :
    \E connectRv \in (IF mem_type = "DRAM_SEG" /\ devId \notin DOMAIN bdevs_
                      THEN ConnectRvs ELSE {"C_OK"}) :
    \E regRv \in (IF mem_type = "DRAM_SEG" /\ connectRv = "C_OK"
                  THEN ConnectRvs ELSE {"C_OK"}) :
    \E disconnectRv \in (IF regRv # "C_OK" /\ devId \notin DOMAIN bdevs_
                         THEN ConnectRvs ELSE {"C_OK"}) :
        registerMem(devId, mem_type, connectRv, regRv, disconnectRv)

RegisterMem == RegisterMemOn(MemTypes)

\* deregisterMem of a registration of one of the memory types of types
DeregisterMemOn(types) ==
    \E devId \in DevIds, mem_type \in types :
    \E unregRv \in (IF mem_type = "DRAM_SEG" THEN ConnectRvs ELSE {"C_OK"}) :
    \E disconnectRv \in (IF mem_type = "DRAM_SEG" /\ unregRv = "C_OK"
                            /\ devId \in DOMAIN bdevs_
                            /\ bdevs_[devId].ref_count = 1
                         THEN ConnectRvs ELSE {"C_OK"}) :
        deregisterMem(devId, mem_type, unregRv, disconnectRv)

DeregisterMem ==
    \/ DeregisterMemOn(RegTypes)
    \/ deregisterMemNull

(***************************************************************************)
(* Operation nodes                                                         *)
(***************************************************************************)
\* gusli::io_map_t
io_map_t(ptr, byte_len, offset_lba_bytes) ==
    [ptr |-> ptr, byte_len |-> byte_len, offset_lba_bytes |-> offset_lba_bytes]

\* the header in front of the entries is not counted
my_size_noHeader(n_entries) == n_entries * EntrySize

\* io_multi_map_t::my_size()
my_size(n_entries) == HdrSize + n_entries * EntrySize

\* every request is a write
G_OP_alwaysWrite(op) == "G_WRITE"

\* nixlGusliBackendReqHbase(_op): the op; pollableAsyncRV is not initialised
G_OP(op) == IF op = "NIXL_WRITE" THEN "G_WRITE" ELSE "G_READ"

\* the constructor hands the request to the native library
nixlGusliBackendReqHSingleBdev_submitted(op) ==
    [kind |-> "SingleBdev",
     op |-> G_OP(op),
     pollableAsyncRV |-> "UNINIT",
     io |-> [params |-> [op |-> G_OP(op), gid |-> 0, is_multi |-> FALSE,
                         map |-> io_map_t(0, 0, 0), mio |-> 0],
             has_callback |-> TRUE,
             st |-> "inflight",
             submits |-> 1,
             err |-> "E_OK"]]

\* nixlGusliBackendReqHSingleBdev(_op): completion callback set, no range yet
nixlGusliBackendReqHSingleBdev(op) ==
    [kind |-> "SingleBdev",
     op |-> G_OP(op),
     pollableAsyncRV |-> "UNINIT",
     io |-> [params |-> [op |-> G_OP(op), gid |-> 0, is_multi |-> FALSE,
                         map |-> io_map_t(0, 0, 0), mio |-> 0],
             has_callback |-> TRUE,
             st |-> "idle",
             submits |-> 0,
             err |-> "E_OK"]]

\* nixlGusliBackendReqHCompound(_op, nSubIOs): no child yet
nixlGusliBackendReqHCompound(op) ==
    [kind |-> "Compound",
     op |-> G_OP(op),
     pollableAsyncRV |-> "UNINIT",
     child |-> <<>>]

\* set1Buf: io.params.init_1_rng(op, gid, remote.addr, local.len, local.addr)
set1Buf(node, gid, local, remote) ==
    [node EXCEPT !.io.params =
        [op |-> node.op, gid |-> gid, is_multi |-> FALSE,
         map |-> io_map_t(local.addr, local.len, remote.addr), mio |-> 0]]

\* the entries are built from ranges 0..N-2 instead of 1..N-1
setBufs_fromRange0(node, gid, local, remote) ==
    LET nRanges == descCount(remote)
        n_entries == nRanges - 1
        hdrOnly == [n_entries |-> n_entries, entries |-> <<>>,
                    wrEnd |-> NEntriesSize, oob |-> NEntriesSize > local[0].len]
    IN  IF my_size(hdrOnly.n_entries) > local[0].len
        THEN [status |-> "NIXL_ERR_INVALID_PARAM", node |-> node, mem |-> hdrOnly]
        ELSE [status |-> "NIXL_SUCCESS",
              node |-> [node EXCEPT !.io.params =
                          [op |-> node.op, gid |-> gid, is_multi |-> TRUE,
                           map |-> io_map_t(0, 0, 0), mio |-> local[0].addr]],
              mem |-> [n_entries |-> n_entries,
                       entries |-> [j \in 0..(nRanges - 2) |->
                                      io_map_t(local[j].addr, local[j].len,
                                               remote[j].addr)],
                       wrEnd |-> my_size(n_entries),
                       oob |-> my_size(n_entries) > local[0].len]]

\* setBufs: the status, the node and the memory at local[0].addr.  The
\* entry count is stored into the buffer first, the size test reads it back.
setBufs(node, gid, local, remote) ==
    LET nRanges == descCount(remote)
        n_entries == nRanges - 1
        hdrOnly == [n_entries |-> n_entries, entries |-> <<>>,
                    wrEnd |-> NEntriesSize, oob |-> NEntriesSize > local[0].len]
    IN  IF my_size(hdrOnly.n_entries) > local[0].len
        THEN [status |-> "NIXL_ERR_INVALID_PARAM", node |-> node, mem |-> hdrOnly]
        ELSE [status |-> "NIXL_SUCCESS",
              node |-> [node EXCEPT !.io.params =
                          [op |-> node.op, gid |-> gid, is_multi |-> TRUE,
                           map |-> io_map_t(0, 0, 0), mio |-> local[0].addr]],
              mem |-> [n_entries |-> n_entries,
                       entries |-> [j \in 0..(nRanges - 2) |->
                                      io_map_t(local[j + 1].addr, local[j + 1].len,
                                               remote[j + 1].addr)],
                       wrEnd |-> my_size(n_entries),
                       oob |-> my_size(n_entries) > local[0].len]]

\* the sub-io is built but not kept in the child vector
addSubIO_notKept(node, op, gid, local, remote) == node

\* addSubIO: child.emplace_back(_op); sub.set1Buf(gid, local, remote)
addSubIO(node, op, gid, local, remote) ==
    LET k == descCount(node.child) IN
    [node EXCEPT !.child =
        [j \in 0..k |-> IF j < k THEN node.child[j]
                        ELSE set1Buf(nixlGusliBackendReqHSingleBdev(op), gid, local, remote)]]

(***************************************************************************)
(* Request classifier                                                      *)
(***************************************************************************)
npos == -1
\* std::string::find on strings held as sequences of characters
find(hay, needle) ==
    LET hits == {p \in 0..(Len(hay) - Len(needle)) :
                    \A k \in 1..Len(needle) : hay[p + k] = needle[k]}
    IN  IF hits = {} THEN npos ELSE CHOOSE p \in hits : \A q \in hits : p <= q

SglFlag == <<"-", "s", "g", "l">>

\* the last range is left out of the comparison
isEntireIOto1Bdev_offByOne(remote) ==
    \A i \in 1..(descCount(remote) - 2) : remote[0].devId = remote[i].devId

isEntireIOto1Bdev(remote) ==
    \A i \in 1..(descCount(remote) - 1) : remote[0].devId = remote[i].devId

has_sgl_mem(opt_args) ==
    ~opt_args.null /\ find(opt_args.customParam, SglFlag) # npos

\* a one-range list is not recognised
is_single_range_io_lessThan(nRanges) == (nRanges < 1)

is_single_range_io(nRanges) == (nRanges = 1)

can_use_multi_range_optimization(entire_io_1_bdev, sgl) == entire_io_1_bdev /\ sgl

\* the supplied scatter-gather range is kept as a sub-io
firstSubIO_keepSgl(sgl) == 0

\* index of the first sub-io of a compound node: a supplied scatter-gather
\* range cannot be used and is ignored
firstSubIO(sgl) == IF sgl THEN 1 ELSE 0

\* every sub-io is sent to the device of range 0
RECURSIVE addSubIOs_firstGid(_, _, _, _, _)
addSubIOs_firstGid(node, a, look, from, nRanges) ==
    IF from >= nRanges THEN node
    ELSE addSubIOs_firstGid(addSubIO(node, a.op, look[a.remote[0].devId].gid,
                                     a.local[from], a.remote[from]),
                            a, look, from + 1, nRanges)

\* the children of the compound node: one addSubIO per index from..nRanges-1
RECURSIVE addSubIOs(_, _, _, _, _)
addSubIOs(node, a, look, from, nRanges) ==
    IF from >= nRanges THEN node
    ELSE addSubIOs(addSubIO(node, a.op, look[a.remote[from].devId].gid,
                            a.local[from], a.remote[from]),
                   a, look, from + 1, nRanges)

\* every local memory type but the block device is taken
localTypeOk_notBlk(t) == (t # "BLK_SEG")

\* prepXfer: local.getType() != DRAM_SEG is rejected
localTypeOk(t) == (t = "DRAM_SEG")

\* every result one call of getGidOfBDev per device can have
Lookups(tbl) ==
    {look \in [DevIds -> [crash : BOOLEAN, gid : GarbageGids]] :
        \A d \in DevIds : look[d] \in getGidOfBDev(tbl, d)}

\* what the reads of remote[0] and local[0] of empty lists can yield: the
\* process dies, or an arbitrary device descriptor is used and the arbitrary
\* length either holds the map or not
Wilds == [crash : BOOLEAN, gid : GarbageGids, fits : BOOLEAN]
NoWild == [crash |-> FALSE, gid |-> 0, fits |-> FALSE]

\* outcomes of prepXfer for the call arguments a: the status, the handle, the
\* memory at local[0].addr and whether the process died.  look is what
\* getGidOfBDev yields for each device in this call, wild what the reads past
\* the end of empty lists yield, trace tells whether the trace log line at
\* the end of prepXfer evaluates its arguments.
prepXfer(tbl, a, look, wild, trace) ==
    LET nRanges == descCount(a.remote)
        Fail(st, m) == [status |-> st, handle |-> NullH, mem |-> m, crashed |-> FALSE]
        Die(h, m) == [status |-> "NONE", handle |-> h, mem |-> m, crashed |-> TRUE]
        \* the log line before the return reads opt_args->customParam
        Done(h, m) == IF trace /\ a.opt_args.null THEN Die(h, m)
                      ELSE [status |-> "NIXL_SUCCESS", handle |-> h, mem |-> m,
                            crashed |-> FALSE]
        sgl == has_sgl_mem(a.opt_args)
    IN
    IF ~localTypeOk(a.localType) THEN Fail("NIXL_ERR_INVALID_PARAM", CleanMem)
    ELSE IF a.remoteType # "BLK_SEG" THEN Fail("NIXL_ERR_INVALID_PARAM", CleanMem)
    ELSE IF descCount(a.local) # nRanges THEN Fail("NIXL_ERR_INVALID_PARAM", CleanMem)
    ELSE IF nRanges = 0
    THEN \* remote[0] and local[0] are read past the end of empty lists; the
         \* int -1 is stored into the unsigned entry count
         LET wildMem == [n_entries |-> nRanges - 1, entries |-> <<>>,
                         wrEnd |-> NEntriesSize, oob |-> TRUE]
         IN  IF wild.crash THEN Die(NullH, CleanMem)
             ELSE IF sgl
             THEN IF ~wild.fits
                  THEN Fail("NIXL_ERR_INVALID_PARAM", wildMem)
                  ELSE Done([nixlGusliBackendReqHSingleBdev(a.op) EXCEPT
                               !.io.params.is_multi = TRUE,
                               !.io.params.gid = wild.gid], wildMem)
             ELSE Done(nixlGusliBackendReqHCompound(a.op), CleanMem)
    ELSE
    LET first == look[a.remote[0].devId]
        entire_io_1_bdev == isEntireIOto1Bdev(a.remote)
    IN
    IF first.crash THEN Die(NullH, CleanMem)
    ELSE IF is_single_range_io(nRanges)
    THEN Done(set1Buf(nixlGusliBackendReqHSingleBdev(a.op), first.gid,
                      a.local[0], a.remote[0]), CleanMem)
    ELSE IF can_use_multi_range_optimization(entire_io_1_bdev, sgl)
    THEN LET r == setBufs(nixlGusliBackendReqHSingleBdev(a.op), first.gid,
                          a.local, a.remote)
         IN  IF r.status # "NIXL_SUCCESS" THEN Fail(r.status, r.mem)
             ELSE Done(r.node, r.mem)
    ELSE LET i == firstSubIO(sgl) IN
         IF \E j \in i..(nRanges - 1) : look[a.remote[j].devId].crash
         THEN Die(NullH, CleanMem)
         ELSE Done(addSubIOs(nixlGusliBackendReqHCompound(a.op), a, look, i, nRanges),
                   CleanMem)

(***************************************************************************)
(* The descriptor lists callers hand to prepXfer                           *)
(***************************************************************************)
nixlBlobDesc(devId, addr, len) == [devId |-> devId, addr |-> addr, len |-> len]

\* as the test builds its lists: range i of the RAM buffer goes to range i
\* behind the byte offset in the block device; local[0] has length len0
LocalList(n, devs, len0) ==
    [i \in 0..(n - 1) |->
        nixlBlobDesc(IF i \in DOMAIN devs THEN devs[i] ELSE UUID_LOCAL_FILE_0,
                     4096 * (i + 1), IF i = 0 THEN len0 ELSE 512)]
RemoteList(n, devs) ==
    [i \in 0..(n - 1) |-> nixlBlobDesc(devs[i], 1048576 + 512 * i, 512)]

\* lengths of local[0] around every size a map of up to maxN-1 entries needs
LenSet(maxN) ==
    {0, NEntriesSize - 1, NEntriesSize, HdrSize}
    \cup {my_size(k) - 1 : k \in 1..(maxN - 1)}
    \cup {my_size(k) : k \in 1..(maxN - 1)}

CustomParams ==
    {<<>>, SglFlag, <<"x">> \o SglFlag \o <<"y">>, <<"s", "g", "l">>}
OptArgs ==
    {[null |-> TRUE, customParam |-> <<>>]}
    \cup {[null |-> FALSE, customParam |-> c] : c \in CustomParams}

\* well-formed calls: DRAM local list, block-device remote list, equal counts
GoodArgs(maxN, lens, opts) ==
    UNION {{[op |-> op, localType |-> "DRAM_SEG", remoteType |-> "BLK_SEG",
             local |-> LocalList(n, devs, len0), remote |-> RemoteList(n, devs),
             opt_args |-> o] :
               devs \in [0..(n - 1) -> DevIds], len0 \in lens,
               o \in opts, op \in XferOps} : n \in 0..maxN}

\* calls with a wrong memory type or with lists of different counts
BadArgs(maxN) ==
    {[op |-> "NIXL_WRITE", localType |-> lt, remoteType |-> rt,
      local |-> LocalList(nl, <<>>, 512),
      remote |-> RemoteList(nr, [i \in 0..(nr - 1) |-> UUID_LOCAL_FILE_0]),
      opt_args |-> [null |-> FALSE, customParam |-> SglFlag]] :
        lt \in MemTypes, rt \in MemTypes, nl \in {0, 1, maxN}, nr \in {0, 1, maxN}}
    \ GoodArgs(maxN, {512}, {[null |-> FALSE, customParam |-> SglFlag]})

(***************************************************************************)
(* Engine calls on requests                                                *)
(***************************************************************************)
\* the caller empties its descriptor lists and its buffer before it builds
\* the lists of the next request
request_build ==
    /\ ~crashed
    /\ handle = NullH
    /\ args # NoArgs
    /\ args' = NoArgs
    /\ sgMem' = CleanMem
    /\ UNCHANGED <<bdevs_, mds, handle, rv, pollSt, crashed>>
    /\ UNCHANGED envVars

\* one call of prepXfer with the arguments a
prepXferCall(a) ==
    \E look \in Lookups(bdevs_) :
       \* getGidOfBDev is called for the devices of the remote list only, and
       \* the log line reads opt_args only when tracing is on
       /\ \A d \in DevIds \ (DOMAIN bdevs_ \cup {a.remote[i].devId : i \in DOMAIN a.remote}) :
             look[d] = [crash |-> TRUE, gid |-> 0]
       /\ \E trace \in (IF a.opt_args.null THEN BOOLEAN ELSE {FALSE}),
             wild \in (IF descCount(a.remote) = 0 THEN Wilds ELSE {NoWild}) :
          LET o == prepXfer(bdevs_, a, look, wild, trace) IN
          /\ args' = a
          /\ handle' = o.handle
          /\ sgMem' = o.mem
          /\ crashed' = o.crashed
          /\ rv' = [call |-> "prepXfer", status |-> o.status, polls |-> 0]

\* prepXfer on lists of the argument set argSet, built after request_build;
\* the caller holds no request
PrepXferOn(argSet) ==
    /\ ~crashed
    /\ handle = NullH
    /\ args = NoArgs
    /\ \E a \in argSet : prepXferCall(a)
    /\ UNCHANGED <<bdevs_, mds, pollSt>>
    /\ UNCHANGED envVars

\* what io.try_cancel() of the destructor can return for an I/O in the air:
\* the I/O is cancelled and its completion will not run, or the native
\* library is already finishing it and the completion will still run
CancelRvs == {"G_CANCELED", "G_ALLREADY_DONE"}

\* the native I/Os of a node that were submitted and have not completed
InFlight(node) ==
    IF node.kind = "SingleBdev" THEN (IF node.io.st = "inflight" THEN 1 ELSE 0)
    ELSE Cardinality({j \in DOMAIN node.child : node.child[j].io.st = "inflight"})

\* only the first sub-io of a compound node is cancelled
try_cancels_firstChild(node) ==
    IF node.kind = "SingleBdev" THEN 1
    ELSE IF DOMAIN node.child = {} THEN 0 ELSE 1

\* the calls of io.try_cancel() the delete of a node makes: one in the
\* destructor of a single-device node, and for a compound node one in the
\* destructor of every element of the child vector
try_cancels(node) ==
    IF node.kind = "SingleBdev" THEN 1 ELSE descCount(node.child)

\* releaseReqH: delete of the node.  The destructor of every single-device
\* node calls io.try_cancel() and ignores what it returns, then the node is
\* freed; cancelRvs are the results the native library gives in this run.
\* The call records how many cancellations it attempted and how many native
\* I/Os of the node were unfinished.
ReleaseReqHOn(cancelRvs) ==
    /\ ~crashed
    /\ pollSt.pc = "idle"
    /\ handle # NullH
    /\ handle' = NullH
    /\ rv' = [call |-> "releaseReqH", status |-> "NIXL_SUCCESS", polls |-> 0,
              cancels |-> try_cancels(handle), unfinished |-> InFlight(handle)]
    /\ \E lost \in 0..InFlight(handle) :
          /\ lost > 0 => "G_ALLREADY_DONE" \in cancelRvs
          /\ lost < InFlight(handle) => "G_CANCELED" \in cancelRvs
          /\ inAir + lost <= MaxInAir
          /\ inAir' = inAir + lost
    /\ UNCHANGED <<bdevs_, mds, args, sgMem, pollSt, crashed, ram, disk, phase, cbPc>>

\* releaseReqH when every cancellation succeeds
ReleaseReqH == ReleaseReqHOn({"G_CANCELED"})

\* releaseReqH with every result of the cancellation
ReleaseReqHAny == ReleaseReqHOn(CancelRvs)

\* the native library finishes an I/O whose node has been deleted and runs
\* completionCallback on the dangling pointer: it reads c->io and writes
\* c->pollableAsyncRV in freed memory, which goes unnoticed or kills the process
completionCallbackFreed ==
    /\ ~crashed
    /\ inAir > 0
    /\ inAir' = inAir - 1
    /\ crashed' \in BOOLEAN
    /\ UNCHANGED <<bdevs_, mds, handle, args, sgMem, rv, pollSt, ram, disk, phase, cbPc>>

\* every failure is reported as a backend error
getCompStatus_noInval(c) ==
    IF c = "E_OK" THEN "NIXL_SUCCESS"
    ELSE IF c = "E_IN_TRANSFER" THEN "NIXL_IN_PROG"
    ELSE "NIXL_ERR_BACKEND"

\* getCompStatus for the value read from pollableAsyncRV
getCompStatus(c) ==
    IF c = "E_OK" THEN "NIXL_SUCCESS"
    ELSE IF c = "E_IN_TRANSFER" THEN "NIXL_IN_PROG"
    ELSE IF c = "E_INVAL_PARAMS" THEN "NIXL_ERR_INVALID_PARAM"
    ELSE "NIXL_ERR_BACKEND"

\* the values a read of pollableAsyncRV can yield: the constructors leave the
\* field uninitialised, so a read before exec yields an arbitrary code
Reads(cell) == IF cell = "UNINIT" THEN IoCodes ELSE {cell}

\* the request is handed to the native library a second time
submit_io_twice(io) == [io EXCEPT !.st = "inflight", !.submits = @ + 2]

\* io.submit_io(): the native library takes the request; submits counts the
\* native submissions of a node
submit_io(io) == [io EXCEPT !.st = "inflight", !.submits = @ + 1]

\* the status cell keeps what the constructor left in it
exec1_noReset(node) == [node EXCEPT !.io = submit_io(@)]

\* nixlGusliBackendReqHSingleBdev::exec
exec1(node) ==
    [node EXCEPT !.pollableAsyncRV = "E_IN_TRANSFER", !.io = submit_io(@)]

\* the status cell of the compound node is left as it is
execCompound_noSet(node) == node

\* nixlGusliBackendReqHCompound::exec before its loop: the status cell is set
execCompound(node) == [node EXCEPT !.pollableAsyncRV = "E_IN_TRANSFER"]

\* the sub-ios are executed from the last one to the first
subAt_reversed(node, i) == descCount(node.child) - 1 - i

\* the sub-io the i-th iteration of  for (auto &sub : child)  visits
subAt(node, i) == i

\* exec of either node kind, for the compound node up to the loop over its
\* children
exec(node) ==
    IF node.kind = "SingleBdev" THEN exec1(node) ELSE execCompound(node)

\* no native I/O of the node has been submitted
NotSubmitted(node) ==
    IF node.kind = "SingleBdev" THEN node.io.st = "idle"
    ELSE \A j \in DOMAIN node.child : node.child[j].io.st = "idle"

\* postXfer: req->exec(); the handle is not tested, a null handle is
\* dereferenced.  The caller posts a request once.  A single-device node is
\* executed in this step; a compound node sets its status cell and enters
\* the loop over its children, during which the native library can already
\* complete the sub-ios it has been given.
PostXfer ==
    /\ ~crashed
    /\ pollSt.pc = "idle"
    /\ \/ /\ handle = NullH
          /\ crashed' = TRUE
          /\ rv' = [call |-> "postXfer", status |-> "NONE", polls |-> 0]
          /\ UNCHANGED <<handle, pollSt>>
       \/ /\ handle # NullH
          /\ NotSubmitted(handle)
          /\ handle' = exec(handle)
          /\ IF handle.kind = "Compound" /\ DOMAIN handle.child # {}
             THEN /\ pollSt' = [pc |-> "exec", i |-> 0]
                  /\ rv' = [call |-> "postXfer", status |-> "RUNNING", polls |-> 0]
             ELSE /\ rv' = [call |-> "postXfer", status |-> "NIXL_IN_PROG", polls |-> 0]
                  /\ UNCHANGED pollSt
          /\ UNCHANGED crashed
    /\ UNCHANGED <<bdevs_, mds, args, sgMem>>
    /\ UNCHANGED envVars

\* one iteration of the loop of the compound exec: (void)sub.exec(); after
\* the last sub-io the call returns NIXL_IN_PROG
ExecLoop ==
    /\ ~crashed
    /\ pollSt.pc = "exec"
    /\ LET n == descCount(handle.child)
           j == subAt(handle, pollSt.i)
       IN  /\ handle' = [handle EXCEPT !.child[j] = exec1(@)]
           /\ IF pollSt.i + 1 < n
              THEN /\ pollSt' = [pc |-> "exec", i |-> pollSt.i + 1]
                   /\ UNCHANGED rv
              ELSE /\ pollSt' = PollIdle
                   /\ rv' = [rv EXCEPT !.status = "NIXL_IN_PROG"]
    /\ UNCHANGED <<bdevs_, mds, args, sgMem, crashed>>
    /\ UNCHANGED envVars

\* the request is handed to the native library before the status cell is set
execOrder_submitFirst == <<"submit_io", "setInTransfer">>

\* the statements of nixlGusliBackendReqHSingleBdev::exec in program order:
\* pollableAsyncRV = E_IN_TRANSFER, then io.submit_io()
execOrder == <<"setInTransfer", "submit_io">>

\* one statement of exec applied to the node
execStmt(node, stmt) ==
    IF stmt = "setInTransfer" THEN [node EXCEPT !.pollableAsyncRV = "E_IN_TRANSFER"]
    ELSE [node EXCEPT !.io = submit_io(@)]

\* postXfer on a single-device node, entered: req->exec() has run no
\* statement yet
PostXferEnter ==
    /\ ~crashed
    /\ pollSt.pc = "idle"
    /\ handle # NullH
    /\ handle.kind = "SingleBdev"
    /\ NotSubmitted(handle)
    /\ pollSt' = [pc |-> "exec1", i |-> 0]
    /\ rv' = [call |-> "postXfer", status |-> "RUNNING", polls |-> 0]
    /\ UNCHANGED <<bdevs_, mds, handle, args, sgMem, crashed>>
    /\ UNCHANGED envVars

\* the next statement of exec on the single-device node; after the last one
\* the call returns NIXL_IN_PROG.  The native library can run the completion
\* callback as soon as submit_io has been entered, before exec returns.
Exec1Step ==
    /\ ~crashed
    /\ pollSt.pc = "exec1"
    /\ IF pollSt.i < Len(execOrder)
       THEN /\ handle' = execStmt(handle, execOrder[pollSt.i + 1])
            /\ pollSt' = [pc |-> "exec1", i |-> pollSt.i + 1]
            /\ UNCHANGED rv
       ELSE /\ pollSt' = PollIdle
            /\ rv' = [rv EXCEPT !.status = "NIXL_IN_PROG"]
            /\ UNCHANGED handle
    /\ UNCHANGED <<bdevs_, mds, args, sgMem, crashed>>
    /\ UNCHANGED envVars

\* the callback does not store the code
completed_noStore(node, c) == [node EXCEPT !.io.err = c, !.io.st = "done"]

\* the native library finishes an I/O with error code c and runs the
\* completion callback, which stores io.get_error() into pollableAsyncRV
completed(node, c) ==
    [node EXCEPT !.io.err = c, !.io.st = "done", !.pollableAsyncRV = c]

\* the sub-io that finishes first gives the compound node its status
childCompleted_firstToFinish(node, j, c) ==
    [node EXCEPT !.child[j] = completed(@, c),
                 !.pollableAsyncRV = IF @ = "E_IN_TRANSFER" THEN c ELSE @]

\* the completion callback of sub-io j of a compound node: the callback is
\* given the sub-io and writes the status cell of the sub-io alone
childCompleted(node, j, c) == [node EXCEPT !.child[j] = completed(@, c)]

\* the device behind the descriptor keeps what is written to it: the local
\* file does, /dev/zero drops every write and reads as zeroes
Stores(gid) == (gid = bdev_get_info(UUID_LOCAL_FILE_0).bdev_descriptor)

\* the ranges of one native request: its single range, or the entries of the
\* map at its mio address
RangesOf(node, mem) ==
    IF node.io.params.is_multi
    THEN {mem.entries[j] : j \in 0..(mem.n_entries - 1)}
    ELSE {node.io.params.map}

\* buffer and devices after the native library has carried out the request
transferred(node, mem, r, d) ==
    LET gid == node.io.params.gid
        rngs == {g \in RangesOf(node, mem) :
                    g.ptr \in RamAddrs /\ <<gid, g.offset_lba_bytes>> \in DOMAIN d}
    IN  IF node.io.params.op = "G_WRITE"
        THEN [ram |-> r,
              disk |-> [k \in DOMAIN d |->
                          IF Stores(gid) /\ \E g \in rngs : k = <<gid, g.offset_lba_bytes>>
                          THEN r[(CHOOSE g \in rngs : k = <<gid, g.offset_lba_bytes>>).ptr]
                          ELSE d[k]]]
        ELSE [ram |-> [a \in DOMAIN r |->
                         IF \E g \in rngs : g.ptr = a
                         THEN IF Stores(gid)
                              THEN d[gid, (CHOOSE g \in rngs : g.ptr = a).offset_lba_bytes]
                              ELSE 0
                         ELSE r[a]],
              disk |-> d]

\* the native library finishes one submitted request: it has moved the data
\* when the code is E_OK, and it runs the completion callback the constructor
\* of the node has set
completionCallback ==
    /\ ~crashed
    /\ handle # NullH
    /\ \E c \in DoneCodes :
         \/ /\ handle.kind = "SingleBdev"
            /\ handle.io.has_callback
            /\ handle.io.st = "inflight"
            /\ handle' = completed(handle, c)
            /\ LET t == IF c = "E_OK" THEN transferred(handle, sgMem, ram, disk)
                        ELSE [ram |-> ram, disk |-> disk]
               IN  ram' = t.ram /\ disk' = t.disk
         \/ /\ handle.kind = "Compound"
            /\ \E j \in DOMAIN handle.child :
                 /\ handle.child[j].io.st = "inflight"
                 /\ handle' = childCompleted(handle, j, c)
                 /\ LET t == IF c = "E_OK"
                             THEN transferred(handle.child[j], sgMem, ram, disk)
                             ELSE [ram |-> ram, disk |-> disk]
                    IN  ram' = t.ram /\ disk' = t.disk
    /\ UNCHANGED <<bdevs_, mds, args, sgMem, rv, pollSt, crashed, phase, inAir, cbPc>>

\* io.params.set_async_pollable(): the request is completed without a
\* callback and its error code is to be polled
set_async_pollable(io) == [io EXCEPT !.has_callback = FALSE]

\* the branch of setBufs that makes a multi-range request pollable.  Its
\* condition starts with a constant false, so prepXfer never takes it and no
\* run of the engine has a node without callback; SpecPoll takes it to put
\* pollStatus before both kinds of node.
SetAsyncPollable ==
    /\ ~crashed
    /\ pollSt.pc = "idle"
    /\ handle # NullH
    /\ handle.kind = "SingleBdev"
    /\ handle.io.params.is_multi
    /\ handle.io.has_callback
    /\ handle.io.st = "idle"
    /\ rv.call = "prepXfer"
    /\ handle' = [handle EXCEPT !.io = set_async_pollable(@)]
    /\ UNCHANGED <<bdevs_, mds, args, sgMem, rv, pollSt, crashed>>
    /\ UNCHANGED envVars

\* the native library finishes a request that has no callback: the data has
\* moved when the code is E_OK, and only io.get_error() tells
completionPollable ==
    /\ ~crashed
    /\ handle # NullH
    /\ handle.kind = "SingleBdev"
    /\ ~handle.io.has_callback
    /\ handle.io.st = "inflight"
    /\ \E c \in DoneCodes :
          /\ handle' = [handle EXCEPT !.io.err = c, !.io.st = "done"]
          /\ LET t == IF c = "E_OK" THEN transferred(handle, sgMem, ram, disk)
                      ELSE [ram |-> ram, disk |-> disk]
             IN  ram' = t.ram /\ disk' = t.disk
    /\ UNCHANGED <<bdevs_, mds, args, sgMem, rv, pollSt, crashed, phase, inAir, cbPc>>

\* the log line follows the store
cbOrder_logAfterStore == <<"store", "log">>

\* the statements of completionCallback in program order: the log line reads
\* c->io.get_error(), then c->pollableAsyncRV = c->io.get_error(), after
\* which the callback returns
cbOrder == <<"log", "store">>

\* the native requests of a node and the single-device node of request j
SlotsOf(h) ==
    IF h = NullH THEN {}
    ELSE IF h.kind = "SingleBdev" THEN {0}
    ELSE DOMAIN h.child
SlotNode(h, j) == IF h.kind = "SingleBdev" THEN h ELSE h.child[j]

\* the native library has finished request j with code c
finished(h, j, c) ==
    IF h.kind = "SingleBdev" THEN [h EXCEPT !.io.err = c, !.io.st = "done"]
    ELSE [h EXCEPT !.child[j].io.err = c, !.child[j].io.st = "done"]

\* one statement of completionCallback on the node of request j: the log
\* line only reads the node, the store writes its status cell
cbStmt(h, j, stmt) ==
    IF stmt # "store" THEN h
    ELSE IF h.kind = "SingleBdev" THEN [h EXCEPT !.pollableAsyncRV = h.io.err]
    ELSE [h EXCEPT !.child[j].pollableAsyncRV = h.child[j].io.err]

\* the native library finishes request j, has moved the data when the code
\* is E_OK, and enters completionCallback on its own thread
callbackEnter ==
    /\ ~crashed
    /\ \E j \in SlotsOf(handle), c \in DoneCodes :
          /\ SlotNode(handle, j).io.has_callback
          /\ SlotNode(handle, j).io.st = "inflight"
          /\ cbPc[j] = 0
          /\ handle' = finished(handle, j, c)
          /\ cbPc' = [cbPc EXCEPT ![j] = 1]
          /\ LET t == IF c = "E_OK"
                      THEN transferred(SlotNode(handle, j), sgMem, ram, disk)
                      ELSE [ram |-> ram, disk |-> disk]
             IN  ram' = t.ram /\ disk' = t.disk
    /\ UNCHANGED <<bdevs_, mds, args, sgMem, rv, pollSt, crashed, phase, inAir>>

\* the next statement of a running completionCallback; the callback returns
\* after its last statement
callbackStep ==
    /\ ~crashed
    /\ \E j \in SlotsOf(handle) :
          /\ cbPc[j] >= 1
          /\ handle' = cbStmt(handle, j, cbOrder[cbPc[j]])
          /\ cbPc' = [cbPc EXCEPT ![j] = IF @ = Len(cbOrder) THEN 0 ELSE @ + 1]
    /\ UNCHANGED <<bdevs_, mds, args, sgMem, rv, pollSt, crashed,
                   ram, disk, phase, inAir>>

\* the poll loop of the caller: as soon as checkXfer has returned a terminal
\* status the node is released.  The callbacks that still have a statement
\* to run are left with a pointer to the deleted node.
ReleaseAtOnce ==
    /\ ~crashed
    /\ pollSt.pc = "idle"
    /\ handle # NullH
    /\ rv.call = "checkXfer"
    /\ rv.status \notin {"NIXL_IN_PROG", "RUNNING", "NONE"}
    /\ handle' = NullH
    /\ rv' = [call |-> "releaseReqH", status |-> "NIXL_SUCCESS", polls |-> 0,
              cancels |-> try_cancels(handle), unfinished |-> InFlight(handle)]
    /\ LET running == Cardinality({j \in Slots : cbPc[j] # 0})
       IN  /\ inAir + running <= MaxInAir
           /\ inAir' = inAir + running
    /\ cbPc' = CbIdle
    /\ UNCHANGED <<bdevs_, mds, args, sgMem, pollSt, crashed, ram, disk, phase>>

\* the first loop never waits for a sub-io
subInAir_never(st) == FALSE

\* first loop of the compound pollStatus: the sub-io is still in the air
subInAir(st) == (st = "NIXL_IN_PROG")

\* only a backend error counts as a failed sub-io
subFailed_onlyBackend(st) == (st = "NIXL_ERR_BACKEND")

\* second loop of the compound pollStatus: the sub-io failed
subFailed(st) == (st # "NIXL_SUCCESS")

\* the cached status is never used
alreadyDone_never(c) == FALSE

\* the compound pollStatus returns the status it stored earlier
alreadyDone(c) == (c # "E_IN_TRANSFER")

\* a node without callback is polled without asking the native library
pollStatus1_noRefresh(node) == node

\* nixlGusliBackendReqHSingleBdev::pollStatus before getCompStatus(): a node
\* without callback stores io.get_error() into pollableAsyncRV, a node with a
\* callback is left as it is
pollStatus1(node) ==
    IF ~node.io.has_callback THEN [node EXCEPT !.pollableAsyncRV = node.io.err]
    ELSE node

\* checkXfer: req->pollStatus(); the handle is not tested.  A single-device
\* node refreshes its status cell when it has no callback and maps the code
\* in the cell; a compound node returns the stored status or starts polling
\* its children.
CheckXfer ==
    /\ ~crashed
    /\ pollSt.pc = "idle"
    /\ \/ /\ handle = NullH
          /\ crashed' = TRUE
          /\ rv' = [call |-> "checkXfer", status |-> "NONE", polls |-> 0]
          /\ UNCHANGED <<handle, pollSt>>
       \/ /\ handle # NullH
          /\ handle.kind = "SingleBdev"
          /\ handle' = pollStatus1(handle)
          /\ \E c \in Reads(pollStatus1(handle).pollableAsyncRV) :
                rv' = [call |-> "checkXfer", status |-> getCompStatus(c), polls |-> 0]
          /\ UNCHANGED <<pollSt, crashed>>
       \/ /\ handle # NullH
          /\ handle.kind = "Compound"
          /\ \E c \in Reads(handle.pollableAsyncRV) :
                IF alreadyDone(c)
                THEN /\ rv' = [call |-> "checkXfer", status |-> getCompStatus(c),
                               polls |-> 0]
                     /\ UNCHANGED <<handle, pollSt>>
                ELSE IF DOMAIN handle.child = {}
                THEN /\ handle' = [handle EXCEPT !.pollableAsyncRV = "E_OK"]
                     /\ rv' = [call |-> "checkXfer", status |-> getCompStatus("E_OK"),
                               polls |-> 0]
                     /\ UNCHANGED pollSt
                ELSE /\ pollSt' = [pc |-> "loop1", i |-> 0]
                     /\ rv' = [call |-> "checkXfer", status |-> "RUNNING", polls |-> 0]
                     /\ UNCHANGED handle
          /\ UNCHANGED crashed
    /\ UNCHANGED <<bdevs_, mds, args, sgMem>>
    /\ UNCHANGED envVars

\* one iteration of the first loop: sub.pollStatus() == NIXL_IN_PROG returns
PollLoop1 ==
    /\ ~crashed
    /\ pollSt.pc = "loop1"
    /\ LET n == descCount(handle.child)
           sub == handle.child[pollSt.i]
       IN  \E c \in Reads(sub.pollableAsyncRV) :
             IF subInAir(getCompStatus(c))
             THEN /\ rv' = [call |-> "checkXfer", status |-> "NIXL_IN_PROG",
                            polls |-> rv.polls + 1]
                  /\ pollSt' = PollIdle
             ELSE /\ rv' = [rv EXCEPT !.polls = @ + 1]
                  /\ pollSt' = IF pollSt.i + 1 < n
                               THEN [pc |-> "loop1", i |-> pollSt.i + 1]
                               ELSE [pc |-> "loop2", i |-> 0]
    /\ UNCHANGED <<bdevs_, mds, handle, args, sgMem, crashed>>
    /\ UNCHANGED envVars

\* one iteration of the second loop: the first sub-io that is not successful
\* gives the compound node its code; after the last one the code is E_OK
PollLoop2 ==
    /\ ~crashed
    /\ pollSt.pc = "loop2"
    /\ LET n == descCount(handle.child)
           sub == handle.child[pollSt.i]
       IN  \E c \in Reads(sub.pollableAsyncRV) :
             IF subFailed(getCompStatus(c))
             THEN /\ handle' = [handle EXCEPT !.pollableAsyncRV = c]
                  /\ rv' = [call |-> "checkXfer", status |-> getCompStatus(c),
                            polls |-> rv.polls + 1]
                  /\ pollSt' = PollIdle
             ELSE IF pollSt.i + 1 < n
             THEN /\ rv' = [rv EXCEPT !.polls = @ + 1]
                  /\ pollSt' = [pc |-> "loop2", i |-> pollSt.i + 1]
                  /\ UNCHANGED handle
             ELSE /\ handle' = [handle EXCEPT !.pollableAsyncRV = "E_OK"]
                  /\ rv' = [call |-> "checkXfer", status |-> getCompStatus("E_OK"),
                            polls |-> rv.polls + 1]
                  /\ pollSt' = PollIdle
    /\ UNCHANGED <<bdevs_, mds, args, sgMem, crashed>>
    /\ UNCHANGED envVars

(***************************************************************************)
(* Specifications                                                          *)
(***************************************************************************)
NoMds == [d \in DevIds, t \in RegTypes |-> 0]

Init ==
    /\ bdevs_ = <<>>
    /\ mds = NoMds
    /\ handle = NullH
    /\ args = NoArgs
    /\ sgMem = CleanMem
    /\ rv = NoCall
    /\ pollSt = PollIdle
    /\ crashed = FALSE
    /\ ram = ZeroRam
    /\ disk = ZeroDisk
    /\ phase = "free"
    /\ inAir = 0
    /\ cbPc = CbIdle

\* the classifier alone, on lists of up to MaxRangesWide descriptors, with
\* any set of devices opened by one DRAM registration each
InitPrep ==
    /\ \E open \in SUBSET DevIds :
          /\ bdevs_ = [d \in open |-> [ref_count |-> 1, bi |-> bdev_get_info(d)]]
          /\ mds = [d \in DevIds, t \in RegTypes |->
                      IF d \in open /\ t = "DRAM_SEG" THEN 1 ELSE 0]
    /\ handle = NullH
    /\ args = NoArgs
    /\ sgMem = CleanMem
    /\ rv = NoCall
    /\ pollSt = PollIdle
    /\ crashed = FALSE
    /\ ram = ZeroRam
    /\ disk = ZeroDisk
    /\ phase = "free"
    /\ inAir = 0
    /\ cbPc = CbIdle

\* requests that are also executed: lists of up to MaxRanges descriptors,
\* local[0] large enough for the map, both devices registered
IoOptArgs == {[null |-> FALSE, customParam |-> <<>>],
              [null |-> FALSE, customParam |-> SglFlag]}

InitIO ==
    /\ bdevs_ = [d \in DevIds |-> [ref_count |-> 1, bi |-> bdev_get_info(d)]]
    /\ mds = [d \in DevIds, t \in RegTypes |-> IF t = "DRAM_SEG" THEN 1 ELSE 0]
    /\ handle = NullH
    /\ args = NoArgs
    /\ sgMem = CleanMem
    /\ rv = NoCall
    /\ pollSt = PollIdle
    /\ crashed = FALSE
    /\ ram = ZeroRam
    /\ disk = ZeroDisk
    /\ phase = "free"
    /\ inAir = 0
    /\ cbPc = CbIdle

IoArgs == GoodArgs(MaxRanges, {my_size(MaxRanges - 1)}, IoOptArgs)

PrepXfer == PrepXferOn(IoArgs)

NextIO ==
    \/ request_build
    \/ PrepXfer
    \/ PostXfer
    \/ ExecLoop
    \/ CheckXfer
    \/ PollLoop1
    \/ PollLoop2
    \/ completionCallback
    \/ ReleaseReqH

SpecIO == InitIO /\ [][NextIO]_vars

\* the requests of SpecIO, where a multi-range request may be made pollable
\* before it is posted
NextPoll ==
    \/ request_build
    \/ PrepXfer
    \/ SetAsyncPollable
    \/ PostXfer
    \/ ExecLoop
    \/ CheckXfer
    \/ PollLoop1
    \/ PollLoop2
    \/ completionCallback
    \/ completionPollable
    \/ ReleaseReqH

SpecPoll == InitIO /\ [][NextPoll]_vars

\* postXfer on a compound node, as in SpecIO
PostXferCompound == handle # NullH /\ handle.kind = "Compound" /\ PostXfer

\* the requests of SpecIO with the exec of a single-device node taken
\* statement by statement, so that a completion can fall into the call
NextSubmit ==
    \/ request_build
    \/ PrepXfer
    \/ PostXferEnter
    \/ Exec1Step
    \/ PostXferCompound
    \/ ExecLoop
    \/ CheckXfer
    \/ PollLoop1
    \/ PollLoop2
    \/ completionCallback
    \/ ReleaseReqH

SpecSubmit == InitIO /\ [][NextSubmit]_vars

\* the write, clear, read and verify run of the test: the buffer is filled
\* with a pattern that differs from range to range, a WRITE request is
\* driven to success, the buffer is cleared, and a READ request on the same
\* lists is driven to success
Pattern == [a \in RamAddrs |-> a \div 4096]
RtArgs == {a \in IoArgs : a.op = "NIXL_WRITE" /\ descCount(a.remote) >= 1}

InitRT ==
    /\ bdevs_ = [d \in DevIds |-> [ref_count |-> 1, bi |-> bdev_get_info(d)]]
    /\ mds = [d \in DevIds, t \in RegTypes |-> IF t = "DRAM_SEG" THEN 1 ELSE 0]
    /\ handle = NullH
    /\ args = NoArgs
    /\ sgMem = CleanMem
    /\ rv = NoCall
    /\ pollSt = PollIdle
    /\ crashed = FALSE
    /\ ram = Pattern
    /\ disk = ZeroDisk
    /\ phase = "write"
    /\ inAir = 0
    /\ cbPc = CbIdle

PrepXferWrite == phase = "write" /\ PrepXferOn(RtArgs)

\* test_pattern.clear after the WRITE request was posted and polled to success
test_pattern_clear ==
    /\ ~crashed
    /\ pollSt.pc = "idle"
    /\ phase = "write"
    /\ handle # NullH /\ ~NotSubmitted(handle)
    /\ rv.call = "checkXfer" /\ rv.status = "NIXL_SUCCESS"
    /\ ram' = ZeroRam
    /\ phase' = "cleared"
    /\ UNCHANGED <<bdevs_, mds, handle, args, sgMem, rv, pollSt, crashed, disk, inAir, cbPc>>

\* the READ request on the lists of the WRITE request
PrepXferRead ==
    /\ ~crashed
    /\ handle = NullH
    /\ phase = "cleared"
    /\ prepXferCall([args EXCEPT !.op = "NIXL_READ"])
    /\ phase' = "read"
    /\ UNCHANGED <<bdevs_, mds, pollSt, ram, disk, inAir, cbPc>>

NextRT ==
    \/ PrepXferWrite
    \/ PostXfer
    \/ ExecLoop
    \/ CheckXfer
    \/ PollLoop1
    \/ PollLoop2
    \/ completionCallback
    \/ test_pattern_clear
    \/ ReleaseReqH
    \/ PrepXferRead

SpecRT == InitRT /\ [][NextRT]_vars

\* requests released at any time, with cancellations that succeed or not
NextRel ==
    \/ request_build
    \/ PrepXfer
    \/ PostXfer
    \/ ExecLoop
    \/ CheckXfer
    \/ PollLoop1
    \/ PollLoop2
    \/ completionCallback
    \/ ReleaseReqHAny
    \/ completionCallbackFreed

SpecRel == InitIO /\ [][NextRel]_vars

\* the caller of the test: a request that was posted is polled until a poll
\* returns a terminal status and is released then; every native I/O that was
\* submitted completes, and a call that has started runs to its end
PollCall == handle # NullH /\ ~NotSubmitted(handle) /\ CheckXfer

ReleaseWhenDone ==
    /\ rv.call = "checkXfer"
    /\ rv.status \notin {"NIXL_IN_PROG", "RUNNING", "NONE"}
    /\ ReleaseReqH

NextLive ==
    \/ request_build
    \/ PrepXfer
    \/ PostXfer
    \/ ExecLoop
    \/ PollCall
    \/ PollLoop1
    \/ PollLoop2
    \/ completionCallback
    \/ ReleaseWhenDone

SpecLive ==
    /\ InitIO
    /\ [][NextLive]_vars
    /\ WF_vars(ExecLoop)
    /\ WF_vars(PollCall)
    /\ WF_vars(PollLoop1)
    /\ WF_vars(PollLoop2)
    /\ WF_vars(completionCallback)

\* the poll loop of the test against completion callbacks that run statement
\* by statement on the threads of the native library
NextCb ==
    \/ request_build
    \/ PrepXfer
    \/ PostXfer
    \/ ExecLoop
    \/ PollCall
    \/ PollLoop1
    \/ PollLoop2
    \/ callbackEnter
    \/ callbackStep
    \/ ReleaseAtOnce

SpecCb == InitIO /\ [][NextCb]_vars

\* registration and deregistration around prepared requests: lists of one or
\* two descriptors, no option string
RegArgs ==
    {a \in GoodArgs(2, {512}, {[null |-> FALSE, customParam |-> <<>>]}) :
        a.op = "NIXL_READ" /\ descCount(a.remote) >= 1}

PrepXferReg == PrepXferOn(RegArgs)

DramOnly == {"DRAM_SEG"}
RegisterDram == RegisterMemOn(DramOnly)
DeregisterDram == DeregisterMemOn(DramOnly)

\* registrations of process memory whose native buffer calls succeed and
\* whose disconnect succeeds; the connect of an absent device may fail
OkOnly == {"C_OK"}
RegisterOpen ==
    \E devId \in DevIds :
    \E connectRv \in (IF devId \notin DOMAIN bdevs_ THEN ConnectRvs ELSE OkOnly) :
        registerMem(devId, "DRAM_SEG", connectRv, "C_OK", "C_OK")
DeregisterClose ==
    \E devId \in DevIds : deregisterMem(devId, "DRAM_SEG", "C_OK", "C_OK")

NextOpen ==
    \/ RegisterOpen
    \/ DeregisterClose
    \/ request_build
    \/ PrepXferReg
    \/ ReleaseReqH

SpecOpen == Init /\ [][NextOpen]_vars

\* the same with a disconnect that can fail
DeregisterDisc ==
    \E devId \in DevIds :
    \E disconnectRv \in (IF devId \in DOMAIN bdevs_ /\ bdevs_[devId].ref_count = 1
                         THEN ConnectRvs ELSE OkOnly) :
        deregisterMem(devId, "DRAM_SEG", "C_OK", disconnectRv)

NextClose ==
    \/ RegisterOpen
    \/ DeregisterDisc
    \/ request_build
    \/ PrepXferReg
    \/ ReleaseReqH

SpecClose == Init /\ [][NextClose]_vars

NextReg ==
    \/ RegisterDram
    \/ DeregisterDram
    \/ request_build
    \/ PrepXferReg
    \/ ReleaseReqH

SpecReg == Init /\ [][NextReg]_vars

\* registrations of every memory type, where every native call can fail
NextBlk ==
    \/ RegisterMem
    \/ DeregisterMem

SpecBlk == Init /\ [][NextBlk]_vars

\* bdevOpen and bdevClose on their own, called in any order on any device;
\* the native connect and disconnect can fail where they are issued
BdevOpen ==
    /\ ~crashed
    /\ \E devId \in DevIds :
       \E connectRv \in (IF devId \notin DOMAIN bdevs_ THEN ConnectRvs ELSE OkOnly) :
          /\ devId \in DOMAIN bdevs_ => bdevs_[devId].ref_count < MaxRefs
          /\ LET o == bdevOpen(bdevs_, devId, connectRv) IN
             /\ bdevs_' = o.tbl
             /\ rv' = RegRv("bdevOpen", o.status, devId, o.native)
    /\ UNCHANGED <<mds, handle, args, sgMem, pollSt, crashed>>
    /\ UNCHANGED envVars

BdevClose ==
    /\ ~crashed
    /\ \E devId \in DevIds :
       \E disconnectRv \in (IF devId \in DOMAIN bdevs_ /\ bdevs_[devId].ref_count = 1
                            THEN ConnectRvs ELSE OkOnly) :
          LET c == bdevClose(bdevs_, devId, disconnectRv) IN
          /\ bdevs_' = c.tbl
          /\ rv' = RegRv("bdevClose", c.status, devId, c.native)
    /\ UNCHANGED <<mds, handle, args, sgMem, pollSt, crashed>>
    /\ UNCHANGED envVars

NextTbl ==
    \/ BdevOpen
    \/ BdevClose

SpecTbl == Init /\ [][NextTbl]_vars

\* every call of the engine
Next ==
    \/ RegisterMem
    \/ DeregisterMem
    \/ NextRel

Spec == Init /\ [][Next]_vars

\* the calls made when only the classifier runs
LensFor(n) ==
    {0, NEntriesSize - 1, NEntriesSize, HdrSize}
    \cup (IF n > 1 THEN {my_size(n - 1) - 1, my_size(n - 1)} ELSE {})
WideArgs ==
    {a \in GoodArgs(MaxRangesWide, LenSet(MaxRangesWide), OptArgs) :
        descCount(a.local) = 0 \/ a.local[0].len \in LensFor(descCount(a.local))}
    \cup BadArgs(MaxRangesWide)

PrepXferWide == PrepXferOn(WideArgs)

NextPrep == request_build \/ PrepXferWide \/ ReleaseReqH

SpecPrep == InitPrep /\ [][NextPrep]_vars

(***************************************************************************)
(* Properties of the request classifier (checked under SpecPrep)           *)
(***************************************************************************)
\* prepXfer has just run on the lists in args
AfterPrep == rv.call = "prepXfer" /\ args # NoArgs
nRangesOf(a) == descCount(a.remote)
WellFormed(a) ==
    /\ a.localType = "DRAM_SEG"
    /\ a.remoteType = "BLK_SEG"
    /\ descCount(a.local) = descCount(a.remote)
\* every device the remote list names has a handle in the table
AllOpen(a) == \A i \in DOMAIN a.remote : a.remote[i].devId \in DOMAIN bdevs_
OneDevice(a) == \A i, j \in DOMAIN a.remote : a.remote[i].devId = a.remote[j].devId
\* the option strings of OptArgs that contain "-sgl"
FlagSet(a) ==
    /\ ~a.opt_args.null
    /\ a.opt_args.customParam \in {SglFlag, <<"x">> \o SglFlag \o <<"y">>}
\* the scatter-gather strategy applies but local[0] cannot hold the map
Undersized(a) ==
    /\ nRangesOf(a) > 1 /\ OneDevice(a) /\ FlagSet(a)
    /\ HdrSize + (nRangesOf(a) - 1) * EntrySize > a.local[0].len
\* the descriptor pair i as one native range
PairOf(a, i) ==
    [ptr |-> a.local[i].addr, byte_len |-> a.local[i].len,
     offset_lba_bytes |-> a.remote[i].addr]
GidOf(a, i) == bdevs_[a.remote[i].devId].bi.bdev_descriptor

\* the ranges a node hands to the native library, with the device of each:
\* a multi-range request reads them from the map at its mio address
Transfers(h, mem) ==
    IF h.kind = "SingleBdev"
    THEN IF h.io.params.is_multi
         THEN {[gid |-> h.io.params.gid, rng |-> mem.entries[j]] :
                  j \in 0..(mem.n_entries - 1)}
         ELSE {[gid |-> h.io.params.gid, rng |-> h.io.params.map]}
    ELSE IF h.kind = "Compound"
    THEN {[gid |-> h.child[j].io.params.gid, rng |-> h.child[j].io.params.map] :
             j \in DOMAIN h.child}
    ELSE {}

\* C1: when the scatter-gather strategy applies and the map for count-1
\* entries does not fit into local[0], prepXfer returns InvalidParam and has
\* written no byte of local[0]'s memory.
C1_RejectedBeforeAnyWrite ==
    (AfterPrep /\ WellFormed(args) /\ AllOpen(args) /\ Undersized(args))
        => (rv.status = "NIXL_ERR_INVALID_PARAM" /\ sgMem.wrEnd = 0)

\* C2: prepXfer writes no byte outside [addr, addr+len) of local[0],
\* whatever the declared length of local[0] is.
C2_NoWriteOutsideLocal0 ==
    (AfterPrep /\ WellFormed(args) /\ AllOpen(args) /\ nRangesOf(args) >= 1)
        => (~sgMem.oob /\ sgMem.wrEnd <= args.local[0].len)

\* C3: a valid request with more than one descriptor pair yields one node: the
\* single-device scatter-gather node exactly when all remote descriptors
\* name one device and the options contain "-sgl", a compound node in every
\* other case; absent options count as flag not requested.
C3_StrategyChoice ==
    (AfterPrep /\ WellFormed(args) /\ AllOpen(args) /\ nRangesOf(args) > 1
       /\ ~Undersized(args))
        => /\ handle # NullH
           /\ IF OneDevice(args) /\ FlagSet(args)
              THEN handle.kind = "SingleBdev" /\ handle.io.params.is_multi
              ELSE handle.kind = "Compound"
C3_Witness ==
    /\ AfterPrep /\ WellFormed(args) /\ AllOpen(args) /\ nRangesOf(args) > 1
    /\ OneDevice(args) /\ args.opt_args.null
    /\ handle # NullH /\ handle.kind = "Compound"

\* C4: a request with exactly one descriptor pair yields the single-range
\* node built from index 0 and no scatter-gather map is written, with or
\* without the scatter-gather flag.
C4_SingleRange ==
    (AfterPrep /\ WellFormed(args) /\ AllOpen(args) /\ nRangesOf(args) = 1)
        => /\ handle # NullH
           /\ handle.kind = "SingleBdev"
           /\ ~handle.io.params.is_multi
           /\ handle.io.params.map = PairOf(args, 0)
           /\ handle.io.params.gid = GidOf(args, 0)
           /\ sgMem.wrEnd = 0
C4_Witness ==
    /\ AfterPrep /\ WellFormed(args) /\ AllOpen(args) /\ nRangesOf(args) = 1
    /\ FlagSet(args)
    /\ handle # NullH /\ handle.kind = "SingleBdev"

\* C5: remote descriptors on two or more devices yield a compound node with
\* count children, count-1 when the scatter-gather flag was supplied; the
\* children are the remaining pairs in index order, each on the handle of
\* the device its remote descriptor names.
C5_CompoundChildren ==
    (AfterPrep /\ WellFormed(args) /\ AllOpen(args) /\ ~OneDevice(args))
        => LET skip == IF FlagSet(args) THEN 1 ELSE 0 IN
           /\ handle # NullH
           /\ handle.kind = "Compound"
           /\ DOMAIN handle.child = 0..(nRangesOf(args) - skip - 1)
           /\ \A j \in DOMAIN handle.child :
                 /\ handle.child[j].kind = "SingleBdev"
                 /\ ~handle.child[j].io.params.is_multi
                 /\ handle.child[j].io.params.map = PairOf(args, j + skip)
                 /\ handle.child[j].io.params.gid = GidOf(args, j + skip)
C5_Witness ==
    /\ AfterPrep /\ WellFormed(args) /\ AllOpen(args) /\ ~OneDevice(args)
    /\ FlagSet(args) /\ nRangesOf(args) = 3
    /\ handle # NullH /\ handle.kind = "Compound"
    /\ descCount(handle.child) = 2
    /\ args.remote[1].devId # args.remote[2].devId

\* C6 as claimed: with the flag set and remote descriptors on more than one
\* device, the compound node has a child for descriptor pair 0.
C6_Pair0Transferred ==
    (AfterPrep /\ WellFormed(args) /\ AllOpen(args) /\ ~OneDevice(args)
       /\ FlagSet(args))
        => /\ handle # NullH
           /\ handle.kind = "Compound"
           /\ \E j \in DOMAIN handle.child :
                 handle.child[j].io.params.map = PairOf(args, 0)

\* C6 amended: with the flag set and remote descriptors on more than one
\* device, descriptor pair 0 is the unusable scatter-gather range and is
\* skipped: the children are the pairs 1..count-1 and none transfers pair 0.
C6_Pair0Skipped ==
    (AfterPrep /\ WellFormed(args) /\ AllOpen(args) /\ ~OneDevice(args)
       /\ FlagSet(args))
        => /\ handle # NullH
           /\ handle.kind = "Compound"
           /\ {handle.child[j].io.params.map : j \in DOMAIN handle.child}
                = {PairOf(args, i) : i \in 1..(nRangesOf(args) - 1)}
           /\ \A j \in DOMAIN handle.child :
                 handle.child[j].io.params.map # PairOf(args, 0)
C6_Witness ==
    /\ AfterPrep /\ WellFormed(args) /\ AllOpen(args) /\ ~OneDevice(args)
    /\ FlagSet(args) /\ nRangesOf(args) = 2
    /\ handle # NullH /\ handle.kind = "Compound"
    /\ descCount(handle.child) = 1

\* the node and the memory prepXfer yields for the lists of args with the
\* options o, all devices being open and the log line not dereferencing
Reprepared(o) ==
    LET look == CHOOSE l \in Lookups(bdevs_) : TRUE
    IN  prepXfer(bdevs_, [args EXCEPT !.opt_args = o], look, NoWild, FALSE)
\* five descriptors on one open device, flag set, local[0] holds the map
FiveOnOneDevice ==
    /\ AfterPrep /\ WellFormed(args) /\ AllOpen(args) /\ nRangesOf(args) = 5
    /\ OneDevice(args) /\ FlagSet(args) /\ ~Undersized(args)
Pair0Transfer == [gid |-> GidOf(args, 0), rng |-> PairOf(args, 0)]

\* C10 as claimed: five descriptors on one device give a map of four entries
\* with the flag and, for the identical lists without the flag, a compound
\* node of five children that transfers the same ranges to the same offsets.
C10_SameTransfers ==
    FiveOnOneDevice
        => /\ handle # NullH /\ handle.kind = "SingleBdev"
           /\ sgMem.n_entries = 4
           /\ \A o \in OptArgs :
                 (o.null \/ o.customParam \in {<<>>, <<"s", "g", "l">>}) =>
                    LET r == Reprepared(o) IN
                    /\ r.handle.kind = "Compound"
                    /\ descCount(r.handle.child) = 5
                    /\ Transfers(r.handle, r.mem) = Transfers(handle, sgMem)

\* C10 amended: ... the compound node of five children transfers the four
\* ranges of the map to the same offsets and, in addition, descriptor pair 0,
\* which the scatter-gather node does not transfer.
C10_TransfersButPair0 ==
    FiveOnOneDevice
        => /\ handle # NullH /\ handle.kind = "SingleBdev"
           /\ sgMem.n_entries = 4
           /\ Pair0Transfer \notin Transfers(handle, sgMem)
           /\ Transfers(handle, sgMem)
                = {[gid |-> GidOf(args, 0), rng |-> PairOf(args, i)] : i \in 1..4}
           /\ \A o \in OptArgs :
                 (o.null \/ o.customParam \in {<<>>, <<"s", "g", "l">>}) =>
                    LET r == Reprepared(o) IN
                    /\ r.handle.kind = "Compound"
                    /\ descCount(r.handle.child) = 5
                    /\ Transfers(r.handle, r.mem)
                         = Transfers(handle, sgMem) \cup {Pair0Transfer}
C10_Witness ==
    /\ FiveOnOneDevice
    /\ handle # NullH /\ handle.kind = "SingleBdev" /\ handle.io.params.is_multi
    /\ sgMem.n_entries = 4

(***************************************************************************)
(* Execution and polling of compound nodes                                 *)
(***************************************************************************)
Terminal(st) == st \notin {"NIXL_IN_PROG", "RUNNING", "NONE"}
ChildStatus(h, j) == getCompStatus(h.child[j].pollableAsyncRV)
SubmittedCompound(h) ==
    /\ h # NullH /\ h.kind = "Compound"
    /\ DOMAIN h.child # {}
    /\ \A j \in DOMAIN h.child : h.child[j].io.st # "idle"
AllChildrenTerminal(h) ==
    \A j \in DOMAIN h.child : h.child[j].pollableAsyncRV \in DoneCodes
\* a step in which checkXfer returns to its caller
PollReturns == handle' # NullH /\ rv'.call = "checkXfer" /\ rv'.status # "RUNNING"
\* Success when every child is Success, else the status of the lowest-index
\* child that is not Success
Aggregate(h) ==
    LET bad == {j \in DOMAIN h.child : ChildStatus(h, j) # "NIXL_SUCCESS"}
    IN  IF bad = {} THEN "NIXL_SUCCESS"
        ELSE ChildStatus(h, CHOOSE j \in bad : \A k \in bad : j <= k)

\* C7: when checkXfer returns on a submitted compound node whose children are
\* all terminal, it returns Success iff every child is Success and otherwise
\* the status of the lowest-index child that is not Success.
C7_AggregateStatus ==
    [][(SubmittedCompound(handle) /\ AllChildrenTerminal(handle) /\ PollReturns)
          => rv'.status = Aggregate(handle)]_vars
\* a poll returned InvalidParam for a node whose child 0 succeeded, whose
\* child 1 reported invalid parameters and whose last child failed otherwise
C7_Witness ==
    /\ SubmittedCompound(handle) /\ AllChildrenTerminal(handle)
    /\ descCount(handle.child) = MaxRanges
    /\ handle.child[0].pollableAsyncRV = "E_OK"
    /\ handle.child[1].pollableAsyncRV = "E_INVAL_PARAMS"
    /\ handle.child[MaxRanges - 1].pollableAsyncRV = "E_OTHER"
    /\ rv.call = "checkXfer" /\ rv.status = "NIXL_ERR_INVALID_PARAM"
    /\ rv.polls > 0

\* C8: a status returned by checkXfer on a submitted compound node is
\* terminal only if no child is in progress; while a child is in progress
\* the status returned is InProgress, also when another child has failed.
C8_NoTerminalWhileChildInProgress ==
    (SubmittedCompound(handle) /\ rv.call = "checkXfer" /\ rv.status # "RUNNING"
        /\ \E j \in DOMAIN handle.child :
              handle.child[j].pollableAsyncRV = "E_IN_TRANSFER")
      => rv.status = "NIXL_IN_PROG"
\* a poll returned InProgress although child 0 had already failed
C8_Witness ==
    /\ SubmittedCompound(handle)
    /\ handle.child[0].pollableAsyncRV = "E_INVAL_PARAMS"
    /\ \E j \in DOMAIN handle.child :
          handle.child[j].pollableAsyncRV = "E_IN_TRANSFER"
    /\ rv.call = "checkXfer" /\ rv.status = "NIXL_IN_PROG" /\ rv.polls > 0

\* C9: once checkXfer has returned a terminal status for a submitted compound
\* node, the node holds that status, and every later checkXfer returns it
\* again without polling a child and without changing the node.
C9_IdempotentCompletion ==
    /\ [](SubmittedCompound(handle) /\ rv.call = "checkXfer" /\ Terminal(rv.status)
            => /\ handle.pollableAsyncRV \in DoneCodes
               /\ getCompStatus(handle.pollableAsyncRV) = rv.status)
    /\ [][(SubmittedCompound(handle) /\ handle.pollableAsyncRV \in DoneCodes
            /\ handle' # NullH /\ rv'.call = "checkXfer")
          => /\ rv'.status = getCompStatus(handle.pollableAsyncRV)
             /\ rv'.polls = 0
             /\ pollSt' = PollIdle
             /\ handle' = handle]_vars
\* a later poll returned the stored failure and polled no child
C9_Witness ==
    /\ SubmittedCompound(handle)
    /\ handle.pollableAsyncRV = "E_OTHER"
    /\ rv.call = "checkXfer" /\ rv.status = "NIXL_ERR_BACKEND" /\ rv.polls = 0

(***************************************************************************)
(* Failing calls of prepXfer                                               *)
(***************************************************************************)
\* C14 as claimed: prepXfer on well-formed lists that name a device without
\* a handle in the table, at index 0 or at any other index, returns NotFound
\* and yields no handle.
C14_MissingDeviceNotFound ==
    (AfterPrep /\ WellFormed(args) /\ nRangesOf(args) >= 1 /\ ~AllOpen(args))
        => (rv.status = "NIXL_ERR_NOT_FOUND" /\ handle = NullH /\ ~crashed)

\* C15: prepXfer returns InvalidParam when the local list is not DRAM, when
\* the remote list is not a block device or when the counts differ, and
\* every failing return of prepXfer leaves the handle null.
C15_InvalidParamNoHandle ==
    AfterPrep
        => /\ ~WellFormed(args)
                => (rv.status = "NIXL_ERR_INVALID_PARAM" /\ handle = NullH /\ ~crashed)
           /\ rv.status \notin {"NIXL_SUCCESS", "NONE"} => handle = NullH
\* a VRAM local list of as many descriptors as the remote list was rejected
C15_Witness ==
    /\ AfterPrep
    /\ args.localType = "VRAM_SEG" /\ args.remoteType = "BLK_SEG"
    /\ descCount(args.local) = descCount(args.remote) /\ nRangesOf(args) >= 1
    /\ rv.status = "NIXL_ERR_INVALID_PARAM" /\ handle = NullH

\* C16 as claimed: prepXfer on empty lists returns InvalidParam and builds
\* no node.
C16_EmptyListsRejected ==
    (AfterPrep /\ WellFormed(args) /\ nRangesOf(args) = 0)
        => (rv.status = "NIXL_ERR_INVALID_PARAM" /\ handle = NullH /\ ~crashed)

(***************************************************************************)
(* Status of a node before and after submission                            *)
(***************************************************************************)
SubmittedSingle(h) == h # NullH /\ h.kind = "SingleBdev" /\ h.io.st # "idle"

\* C17 as claimed: checkXfer on a node that prepXfer returned and that has
\* not been submitted returns InProgress, never a terminal status.
C17_PendingBeforeSubmit ==
    (handle # NullH /\ nRangesOf(args) >= 1 /\ NotSubmitted(handle)
        /\ rv.call = "checkXfer" /\ rv.status # "RUNNING")
      => rv.status = "NIXL_IN_PROG"

\* C18: checkXfer on a submitted single-device node returns InProgress as
\* long as the native completion has not run; a terminal status it returns is
\* the stored code, and from then on the stored code does not change and
\* every checkXfer returns its status, until the node is released.
C18_TerminalOnce ==
    /\ []((SubmittedSingle(handle) /\ rv.call = "checkXfer")
            => /\ handle.pollableAsyncRV = "E_IN_TRANSFER" => rv.status = "NIXL_IN_PROG"
               /\ Terminal(rv.status)
                    => /\ handle.pollableAsyncRV \in DoneCodes
                       /\ getCompStatus(handle.pollableAsyncRV) = rv.status)
    /\ [][(SubmittedSingle(handle) /\ handle.pollableAsyncRV \in DoneCodes
            /\ handle' # NullH)
          => /\ handle'.pollableAsyncRV = handle.pollableAsyncRV
             /\ rv'.call = "checkXfer"
                  => rv'.status = getCompStatus(handle.pollableAsyncRV)]_vars
\* a poll returned the failure the native completion had stored
C18_Witness ==
    /\ SubmittedSingle(handle)
    /\ handle.io.st = "done" /\ handle.pollableAsyncRV = "E_INVAL_PARAMS"
    /\ rv.call = "checkXfer" /\ rv.status = "NIXL_ERR_INVALID_PARAM"

\* C20 as claimed: postXfer and checkXfer called with a null handle return
\* InvalidParam and go no further.
C20_NullHandleRejected ==
    (handle = NullH /\ rv.call \in {"postXfer", "checkXfer"})
        => (rv.status = "NIXL_ERR_INVALID_PARAM" /\ ~crashed)

\* C19: postXfer on a single-device node stores in-transfer, hands the
\* request to the native library exactly once and returns InProgress;
\* prepXfer, checkXfer and the completion hand nothing to the native library,
\* so a node is never submitted a second time.
C19_OneSubmission ==
    /\ [](handle # NullH /\ handle.kind = "SingleBdev"
            => handle.io.submits = (IF handle.io.st = "idle" THEN 0 ELSE 1))
    /\ [][(handle' # NullH /\ handle'.kind = "SingleBdev")
          => IF handle = NullH
             THEN handle'.io.submits = 0
             ELSE IF rv'.call = "postXfer" /\ rv.call # "postXfer"
             THEN /\ handle'.io.submits = handle.io.submits + 1
                  /\ handle'.pollableAsyncRV = "E_IN_TRANSFER"
                  /\ rv'.status = "NIXL_IN_PROG"
             ELSE handle'.io.submits = handle.io.submits]_vars
\* the node was submitted once, completed and polled to its final status
C19_Witness ==
    /\ SubmittedSingle(handle)
    /\ handle.io.submits = 1 /\ handle.io.st = "done"
    /\ rv.call = "checkXfer" /\ rv.status = "NIXL_SUCCESS"

(***************************************************************************)
(* Write, clear, read                                                      *)
(***************************************************************************)
\* the READ request of the run has been posted and polled to success
ReadDone ==
    /\ phase = "read"
    /\ handle # NullH /\ ~NotSubmitted(handle)
    /\ rv.call = "checkXfer" /\ rv.status = "NIXL_SUCCESS"

\* C11: after a WRITE request driven to success, the clearing of the buffer
\* and a READ request on the same lists driven to success, every local range
\* the request transfers to a device that keeps what is written holds what
\* was written; the node may be single-range, scatter-gather or compound.
C11_RoundTrip ==
    ReadDone
        => \A t \in Transfers(handle, sgMem) :
              Stores(t.gid) => (ram[t.rng.ptr] = Pattern[t.rng.ptr] /\ ram[t.rng.ptr] # 0)
\* a scatter-gather request of MaxRanges - 1 entries came back from the file
C11_Witness ==
    /\ ReadDone
    /\ handle.kind = "SingleBdev" /\ handle.io.params.is_multi
    /\ sgMem.n_entries = MaxRanges - 1
    /\ Stores(handle.io.params.gid)
    /\ \A j \in 0..(sgMem.n_entries - 1) :
          ram[sgMem.entries[j].ptr] = Pattern[sgMem.entries[j].ptr]
    /\ ram[args.local[0].addr] = 0
\* the same for a single-range request and for a compound request
C11_SeenSingleRange ==
    ReadDone /\ handle.kind = "SingleBdev" /\ ~handle.io.params.is_multi
        /\ Stores(handle.io.params.gid)
C11_SeenCompound ==
    ReadDone /\ handle.kind = "Compound" /\ descCount(handle.child) = MaxRanges
        /\ \E j \in DOMAIN handle.child : Stores(handle.child[j].io.params.gid)

(***************************************************************************)
(* Release while native I/O is in the air                                  *)
(***************************************************************************)
\* C12 as claimed: whatever the interleaving of releaseReqH with the native
\* completion and whatever the cancellation returns, no completion callback
\* runs on a node that releaseReqH has deleted.
C12_NoCallbackOnDeletedNode == [][inAir' >= inAir]_vars

(***************************************************************************)
(* Device handles under prepared requests                                  *)
(***************************************************************************)
\* the native descriptors a node refers to, and those of the open devices
NodeGids(h) ==
    IF h.kind = "SingleBdev" THEN {h.io.params.gid}
    ELSE IF h.kind = "Compound"
    THEN {h.child[j].io.params.gid : j \in DOMAIN h.child}
    ELSE {}
OpenGids(tbl) == {tbl[d].bi.bdev_descriptor : d \in DOMAIN tbl}

\* C13 as claimed: as long as a node is not released, no call disconnects a
\* device the node refers to; a deregisterMem that would drop the last
\* reference to such a device is rejected or deferred.
C13_HandleOutlivesNode ==
    [][(handle # NullH /\ handle' = handle /\ NodeGids(handle) \subseteq OpenGids(bdevs_))
          => NodeGids(handle) \subseteq OpenGids(bdevs_')]_vars

(***************************************************************************)
(* Status mapping                                                          *)
(***************************************************************************)
PollStatuses ==
    {"NIXL_SUCCESS", "NIXL_IN_PROG", "NIXL_ERR_INVALID_PARAM", "NIXL_ERR_BACKEND"}
\* the mapping of native codes the claim states
Mapped(c) ==
    CASE c = "E_OK" -> "NIXL_SUCCESS"
      [] c = "E_IN_TRANSFER" -> "NIXL_IN_PROG"
      [] c = "E_INVAL_PARAMS" -> "NIXL_ERR_INVALID_PARAM"
      [] OTHER -> "NIXL_ERR_BACKEND"

\* C21: every status checkXfer returns is Success, InProgress, InvalidParam
\* or Backend; a poll of a submitted single-device node returns native OK as
\* Success, in-transfer as InProgress, invalid-params as InvalidParam and
\* every other code as Backend, and so does a poll of a submitted compound
\* node for the code it holds when it returns.
C21_ClosedStatusSet ==
    /\ []((rv.call = "checkXfer" /\ rv.status \notin {"RUNNING", "NONE"})
            => rv.status \in PollStatuses)
    /\ []((SubmittedCompound(handle) /\ rv.call = "checkXfer" /\ rv.status # "RUNNING")
            => rv.status = Mapped(handle.pollableAsyncRV))
    /\ [][(SubmittedSingle(handle) /\ handle' = handle /\ rv'.call = "checkXfer")
            => rv'.status = Mapped(handle.pollableAsyncRV)]_vars
\* a native code outside the three named ones came back as Backend, from a
\* single-device node
C21_Witness ==
    /\ SubmittedSingle(handle)
    /\ handle.pollableAsyncRV = "E_OTHER"
    /\ rv.call = "checkXfer" /\ rv.status = "NIXL_ERR_BACKEND"

(***************************************************************************)
(* Release                                                                 *)
(***************************************************************************)
\* the native requests a node owns
NativeRequests(h) == IF h.kind = "SingleBdev" THEN 1 ELSE descCount(h.child)

\* C22: releaseReqH on a node in any state (never submitted, in the air,
\* completed, failed) returns Success, and deleting the node attempts one
\* cancellation for the native request of a single-device node and one for
\* every child of a compound node, unfinished or not.
C22_ReleaseCancelsAll ==
    [][(handle # NullH /\ handle' = NullH)
          => /\ rv'.call = "releaseReqH"
             /\ rv'.status = "NIXL_SUCCESS"
             /\ rv'.cancels = NativeRequests(handle)
             /\ rv'.cancels >= rv'.unfinished]_vars
\* a compound node of MaxRanges children was released while more than one of
\* its sub-ios was unfinished, and every child got its cancellation
C22_Witness ==
    /\ handle = NullH
    /\ rv.call = "releaseReqH" /\ rv.status = "NIXL_SUCCESS"
    /\ rv.cancels = MaxRanges /\ rv.unfinished >= 2

(***************************************************************************)
(* Frame of prepXfer                                                       *)
(***************************************************************************)
\* a step in which prepXfer runs on freshly built lists
PrepStep == args = NoArgs /\ args' # NoArgs
\* the native submissions a node has made
Submits(h) ==
    IF h.kind = "SingleBdev" THEN {h.io.submits}
    ELSE IF h.kind = "Compound" THEN {h.child[j].io.submits : j \in DOMAIN h.child}
    ELSE {}
\* the lists select the scatter-gather strategy: flag set, one device, not
\* a single range
SglStrategy(a) == WellFormed(a) /\ FlagSet(a) /\ OneDevice(a) /\ nRangesOf(a) # 1

\* C23: prepXfer, whether it succeeds or fails, leaves the device table, every
\* reference count and the registrations as they were, moves no data and
\* hands nothing to the native library: the node it returns has no submitted
\* request; the only memory it writes is the map at local[0], and only when
\* the lists select the scatter-gather strategy.
C23_PrepFrame ==
    [][PrepStep
          => /\ bdevs_' = bdevs_
             /\ mds' = mds
             /\ ram' = ram /\ disk' = disk /\ inAir' = inAir
             /\ Submits(handle') \subseteq {0}
             /\ handle' # NullH => NotSubmitted(handle')
             /\ sgMem' # CleanMem => SglStrategy(args')]_vars
\* a scatter-gather node was built with both devices open: the map is in
\* local[0], nothing is submitted and the reference counts are as before
C23_Witness ==
    /\ AfterPrep /\ rv.status = "NIXL_SUCCESS"
    /\ handle # NullH /\ handle.kind = "SingleBdev" /\ handle.io.params.is_multi
    /\ handle.io.st = "idle" /\ handle.io.submits = 0
    /\ sgMem.n_entries = MaxRangesWide - 1
    /\ DOMAIN bdevs_ = DevIds
    /\ \A d \in DevIds : bdevs_[d].ref_count = 1

(***************************************************************************)
(* Submission of a compound node                                           *)
(***************************************************************************)
IsCompound(h) == h # NullH /\ h.kind = "Compound"
\* sub-io j is handed to the native library in this step
SubmitsChild(j) ==
    /\ IsCompound(handle) /\ IsCompound(handle')
    /\ DOMAIN handle'.child = DOMAIN handle.child
    /\ handle.child[j].io.st = "idle"
    /\ handle'.child[j].io.st # "idle"

\* C24: postXfer on a compound node hands every child to the native library
\* exactly once and in index order, the status cell of the compound node
\* holds in-transfer before the first child is handed over, and the call
\* returns InProgress.
C24_CompoundSubmit ==
    /\ [][IsCompound(handle) =>
           \A j \in DOMAIN handle.child :
             SubmitsChild(j)
                => /\ handle.pollableAsyncRV = "E_IN_TRANSFER"
                   /\ rv.call = "postXfer"
                   /\ \A k \in DOMAIN handle.child :
                        /\ k < j => handle.child[k].io.submits = 1
                        /\ k > j => handle'.child[k].io.submits = 0
                   /\ handle'.child[j].io.submits = 1]_vars
    /\ [](IsCompound(handle)
            => \A j \in DOMAIN handle.child : handle.child[j].io.submits <= 1)
    /\ []((IsCompound(handle) /\ rv.call = "postXfer" /\ rv.status # "RUNNING")
            => /\ rv.status = "NIXL_IN_PROG"
               /\ handle.pollableAsyncRV = "E_IN_TRANSFER"
               /\ \A j \in DOMAIN handle.child : handle.child[j].io.submits = 1)
\* postXfer returned InProgress for a compound node of MaxRanges children on
\* both devices; child 0 had completed before the last child was submitted
C24_Witness ==
    /\ IsCompound(handle)
    /\ descCount(handle.child) = MaxRanges
    /\ rv.call = "postXfer" /\ rv.status = "NIXL_IN_PROG"
    /\ \A j \in DOMAIN handle.child : handle.child[j].io.submits = 1
    /\ handle.child[0].io.st = "done"
    /\ handle.child[MaxRanges - 1].io.st = "inflight"
    /\ \E j \in DOMAIN handle.child :
          handle.child[j].io.params.gid # handle.child[0].io.params.gid

(***************************************************************************)
(* Completion order                                                        *)
(***************************************************************************)
\* C25: the terminal status of a submitted compound node is a function of the
\* final statuses of its children alone: a child that is terminal keeps its
\* status, a compound node that is terminal keeps its status, and whenever
\* the node is terminal and all children are terminal the status is Success
\* if every child succeeded and else that of the lowest-index child that did
\* not, in whatever order the children completed and however the polls and
\* their loops were interleaved with the completions.
C25_OrderIndependent ==
    /\ []((SubmittedCompound(handle) /\ handle.pollableAsyncRV \in DoneCodes
             /\ AllChildrenTerminal(handle))
            => getCompStatus(handle.pollableAsyncRV) = Aggregate(handle))
    /\ [][(SubmittedCompound(handle) /\ IsCompound(handle'))
            => /\ handle.pollableAsyncRV \in DoneCodes
                    => handle'.pollableAsyncRV = handle.pollableAsyncRV
               /\ \A j \in DOMAIN handle.child :
                    handle.child[j].pollableAsyncRV \in DoneCodes
                       => handle'.child[j] = handle.child[j]]_vars
\* the last child failed first, the first child succeeded later, and the
\* polls in between returned InProgress: the node ended with the failure of
\* the last child
C25_Witness ==
    /\ SubmittedCompound(handle) /\ AllChildrenTerminal(handle)
    /\ descCount(handle.child) = MaxRanges
    /\ \A j \in 0..(MaxRanges - 2) : handle.child[j].pollableAsyncRV = "E_OK"
    /\ handle.child[MaxRanges - 1].pollableAsyncRV = "E_OTHER"
    /\ handle.pollableAsyncRV = "E_OTHER"
    /\ rv.call = "checkXfer" /\ rv.status = "NIXL_ERR_BACKEND"
\* a poll is inside its first loop while a child behind the loop position
\* has completed before the child at the loop position
C25_SeenOutOfOrder ==
    /\ IsCompound(handle) /\ descCount(handle.child) = MaxRanges
    /\ pollSt.pc = "loop1" /\ pollSt.i = 1
    /\ handle.child[1].io.st = "inflight"
    /\ handle.child[MaxRanges - 1].io.st = "done"

(***************************************************************************)
(* Content of the scatter-gather map                                       *)
(***************************************************************************)
\* prepXfer accepted lists of more than one pair in the scatter-gather
\* strategy
SglAccepted ==
    /\ AfterPrep /\ AllOpen(args) /\ SglStrategy(args) /\ nRangesOf(args) > 1
    /\ rv.status = "NIXL_SUCCESS"

\* C26: when prepXfer accepts N > 1 descriptor pairs in the scatter-gather
\* strategy, the native request points at the map in local[0], the map has
\* N-1 entries, entry i-1 is (local[i].addr, local[i].len, remote[i].addr)
\* for every i in 1..N-1, descriptor pair 0 is not among the ranges the
\* request transfers, and the size of a map of N-1 entries is at most
\* local[0].len.
C26_MapContent ==
    SglAccepted
        => LET N == nRangesOf(args) IN
           /\ handle # NullH /\ handle.kind = "SingleBdev"
           /\ handle.io.params.is_multi
           /\ handle.io.params.mio = args.local[0].addr
           /\ handle.io.params.gid = GidOf(args, 0)
           /\ sgMem.n_entries = N - 1
           /\ DOMAIN sgMem.entries = 0..(N - 2)
           /\ \A i \in 1..(N - 1) :
                 /\ sgMem.entries[i - 1].ptr = args.local[i].addr
                 /\ sgMem.entries[i - 1].byte_len = args.local[i].len
                 /\ sgMem.entries[i - 1].offset_lba_bytes = args.remote[i].addr
           /\ \A t \in Transfers(handle, sgMem) : t.rng # PairOf(args, 0)
           /\ HdrSize + (N - 1) * EntrySize <= args.local[0].len
\* lists of MaxRangesWide pairs were accepted with a local[0] that holds the
\* map of MaxRangesWide - 1 entries and not a byte more
C26_Witness ==
    /\ SglAccepted
    /\ nRangesOf(args) = MaxRangesWide
    /\ args.local[0].len = HdrSize + (MaxRangesWide - 1) * EntrySize
    /\ sgMem.n_entries = MaxRangesWide - 1
    /\ sgMem.entries[MaxRangesWide - 2].ptr = args.local[MaxRangesWide - 1].addr

(***************************************************************************)
(* Termination of polling                                                  *)
(***************************************************************************)
\* postXfer has returned for a node with at least one native I/O
Posted ==
    /\ handle # NullH /\ ~NotSubmitted(handle)
    /\ rv.call = "postXfer" /\ rv.status = "NIXL_IN_PROG"
\* a poll of the submitted node has returned a terminal status
PolledTerminal ==
    /\ handle # NullH /\ ~NotSubmitted(handle)
    /\ rv.call = "checkXfer" /\ Terminal(rv.status)

\* C27: when every submitted native I/O completes and the caller keeps
\* polling, a node of either kind that was posted is eventually polled to a
\* terminal status.
C27_PollTerminates == Posted ~> PolledTerminal
\* a compound node of MaxRanges children was polled to success
C27_Witness ==
    /\ PolledTerminal
    /\ handle.kind = "Compound" /\ descCount(handle.child) = MaxRanges
    /\ rv.status = "NIXL_SUCCESS" /\ rv.polls = 2 * MaxRanges
\* and so was a single-device node
C27_SeenSingle ==
    PolledTerminal /\ handle.kind = "SingleBdev" /\ rv.status = "NIXL_ERR_BACKEND"

(***************************************************************************)
(* Device handle table                                                     *)
(***************************************************************************)
\* a step in which registerMem or deregisterMem runs
RegStep ==
    /\ rv'.call \in {"registerMem", "deregisterMem"}
    /\ (rv' # rv \/ mds' # mds \/ bdevs_' # bdevs_)
\* the native connection call x is made in this step
Issued(x) == \E i \in DOMAIN rv'.native : rv'.native[i] = x
\* the references held on device d: the registrations of process memory
Refs(d) == mds[d, "DRAM_SEG"]

\* C28: with opens that succeed and a disconnect that succeeds, the native
\* connect is issued by an open exactly when the device is absent from the
\* table and the native disconnect by a close exactly when it drops the last
\* reference; the reference count equals the number of opens not yet closed,
\* and the device is in the table exactly while that number is positive, so k
\* opens and k closes issue one connect and one disconnect and leave the
\* device absent.
C28_OpenIdempotent ==
    /\ [][RegStep
            => LET d == rv'.devId IN
               /\ Issued("bdev_connect")
                    <=> (rv'.call = "registerMem" /\ d \notin DOMAIN bdevs_)
               /\ Issued("bdev_disconnect")
                    <=> (rv'.call = "deregisterMem" /\ d \in DOMAIN bdevs_
                           /\ bdevs_[d].ref_count = 1)
               /\ Len(rv'.native) <= 1]_vars
    /\ [](\A d \in DevIds :
             /\ d \in DOMAIN bdevs_ <=> Refs(d) > 0
             /\ d \in DOMAIN bdevs_ => bdevs_[d].ref_count = Refs(d))
\* the open that made the reference count MaxRegs reused the entry of the
\* device and issued no connect
C28_Witness ==
    /\ rv.call = "registerMem" /\ rv.status = "NIXL_SUCCESS" /\ rv.native = <<>>
    /\ rv.devId \in DOMAIN bdevs_
    /\ bdevs_[rv.devId].ref_count = MaxRegs
\* the close of the last reference disconnected the device and erased it
C28_SeenLastClose ==
    /\ rv.call = "deregisterMem" /\ rv.status = "NIXL_SUCCESS"
    /\ rv.native = <<"bdev_disconnect">>
    /\ rv.devId \notin DOMAIN bdevs_ /\ Refs(rv.devId) = 0

\* the same with native calls that fail: a connect is issued only for a
\* device that is absent, a disconnect only when the last reference goes,
\* be it in deregisterMem or in the close that undoes the open of a
\* registerMem whose buffer registration failed
C28_OnlyWhenNeeded ==
    [][RegStep
          => LET d == rv'.devId IN
             /\ Issued("bdev_connect")
                  => (rv'.call = "registerMem" /\ d \notin DOMAIN bdevs_)
             /\ Issued("bdev_disconnect")
                  => \/ /\ rv'.call = "deregisterMem"
                        /\ d \in DOMAIN bdevs_ /\ bdevs_[d].ref_count = 1
                     \/ /\ rv'.call = "registerMem"
                        /\ d \notin DOMAIN bdevs_]_vars

\* the last call was a close whose native disconnect failed
DisconnectFailed ==
    /\ rv.call = "deregisterMem"
    /\ rv.native = <<"bdev_disconnect">>
    /\ rv.status # "NIXL_SUCCESS"

\* C29, what holds of it: when the native disconnect fails, the close returns
\* the mapped error and the device stays in the table with one reference,
\* and every later open of a device in the table reuses the entry without a
\* connect.
C29_StaysRegistered ==
    /\ [](DisconnectFailed
            => /\ rv.status \in {"NIXL_ERR_NOT_FOUND", "NIXL_ERR_INVALID_PARAM",
                                 "NIXL_ERR_BACKEND"}
               /\ rv.devId \in DOMAIN bdevs_
               /\ bdevs_[rv.devId].ref_count >= 1)
    /\ [][(RegStep /\ rv'.call = "registerMem" /\ rv'.devId \in DOMAIN bdevs_)
            => (~Issued("bdev_connect") /\ rv'.status = "NIXL_SUCCESS")]_vars
\* an open reused the entry that a failed disconnect had left in the table
C29_SeenReuse ==
    /\ rv.call = "registerMem" /\ rv.native = <<>> /\ rv.status = "NIXL_SUCCESS"
    /\ bdevs_[rv.devId].ref_count = 2 /\ Refs(rv.devId) = 1

C29_ReferenceNeverReleased ==
    [][\A d \in DevIds :
          (d \in DOMAIN bdevs_ /\ bdevs_[d].ref_count > Refs(d))
             => /\ d \in DOMAIN bdevs_'
                /\ bdevs_'[d].ref_count > Refs(d)'
                /\ ~(RegStep /\ rv'.devId = d /\ Issued("bdev_disconnect"))]_vars


\* the request is a single-device node
SingleNode(h) == h # NullH /\ h.kind = "SingleBdev"

\* C30: a single-device node whose native request has a completion callback
\* is only read by a poll, which maps the code in its status cell; the cell
\* changes only in the submit, which sets it to E_IN_TRANSFER and hands the
\* request to the native library once, and in the completion callback, which
\* stores the native error code.  A poll of a node without callback first
\* stores the native error code into the cell and maps that code.
C30_PollReadsOrRefreshes ==
    [][(SingleNode(handle) /\ SingleNode(handle'))
         => /\ (handle.io.has_callback /\ CheckXfer)
                 => /\ handle' = handle
                    /\ rv'.status \in {getCompStatus(c) : c \in Reads(handle.pollableAsyncRV)}
            /\ (handle.io.has_callback
                  /\ handle'.pollableAsyncRV # handle.pollableAsyncRV)
                 => \/ /\ PostXfer
                       /\ handle'.pollableAsyncRV = "E_IN_TRANSFER"
                       /\ handle'.io.submits = handle.io.submits + 1
                    \/ /\ completionCallback
                       /\ handle'.pollableAsyncRV = handle'.io.err
            /\ (~handle.io.has_callback /\ CheckXfer)
                 => /\ handle'.pollableAsyncRV = handle.io.err
                    /\ rv'.status = getCompStatus(handle.io.err)]_vars

\* a node with a callback was polled after its request had failed: the poll
\* reports the code the callback stored
C30_Witness ==
    /\ SingleNode(handle)
    /\ handle.io.has_callback
    /\ handle.io.st = "done"
    /\ handle.pollableAsyncRV = "E_OTHER"
    /\ rv.call = "checkXfer" /\ rv.status = "NIXL_ERR_BACKEND"

\* a node without callback was polled after its request had failed: the
\* cell holds the native error code and the poll reports it
C30_SeenPollable ==
    /\ SingleNode(handle)
    /\ ~handle.io.has_callback
    /\ handle.io.st = "done"
    /\ handle.io.err = "E_INVAL_PARAMS"
    /\ handle.pollableAsyncRV = "E_INVAL_PARAMS"
    /\ rv.call = "checkXfer" /\ rv.status = "NIXL_ERR_INVALID_PARAM"

\* C31: every compound node prepXfer returns for well-formed lists of two or
\* more descriptor pairs has at least one child, whatever devices the remote
\* descriptors name and whether or not the scatter-gather flag is supplied:
\* it has one child per pair, less the pair the flag sets aside.
C31_CompoundHasChild ==
    (AfterPrep /\ WellFormed(args) /\ nRangesOf(args) >= 2 /\ IsCompound(handle))
        => /\ descCount(handle.child) >= 1
           /\ descCount(handle.child)
                >= nRangesOf(args) - (IF FlagSet(args) THEN 1 ELSE 0)

\* the smallest compound node: two pairs on two devices with the flag
\* supplied leave one child
C31_Witness ==
    /\ AfterPrep /\ WellFormed(args) /\ nRangesOf(args) = 2
    /\ FlagSet(args) /\ ~OneDevice(args)
    /\ IsCompound(handle)
    /\ descCount(handle.child) = 1

\* C32: exec of a single-device node sets the status cell to E_IN_TRANSFER
\* before it hands the request to the native library, so the code a
\* completion callback stores is never overwritten, also when the callback
\* runs before exec has returned: once the native I/O is done the cell holds
\* its error code, and every poll from then on returns the terminal status
\* of that code, never NIXL_IN_PROG.
C32_NoLostCompletion ==
    /\ []((SingleNode(handle) /\ handle.io.st = "done")
            => /\ handle.pollableAsyncRV = handle.io.err
               /\ handle.pollableAsyncRV # "E_IN_TRANSFER")
    /\ [][(SingleNode(handle) /\ handle.io.st = "done" /\ CheckXfer)
            => /\ rv'.status = getCompStatus(handle.io.err)
               /\ rv'.status # "NIXL_IN_PROG"]_vars

\* the completion callback ran with a failure while exec was still inside
\* the native submit call, and the code it stored is in the cell
C32_Witness ==
    /\ SingleNode(handle)
    /\ pollSt.pc = "exec1"
    /\ handle.io.st = "done"
    /\ handle.io.err = "E_OTHER"
    /\ handle.pollableAsyncRV = "E_OTHER"

\* that request was polled after exec had returned
C32_SeenPolled ==
    /\ SingleNode(handle)
    /\ handle.io.st = "done"
    /\ rv.call = "checkXfer" /\ rv.status = "NIXL_ERR_BACKEND"

\* C33: the store of the terminal status is the last access completionCallback
\* makes to its node.  Whenever the poll loop releases a node right after a
\* poll has returned a terminal status, no callback of the node has a
\* statement left to run, so no callback reads or writes the deleted node,
\* however the statements of the callbacks and the polls interleave.
C33_StoreIsLastAccess ==
    /\ [](inAir = 0)
    /\ [][ReleaseAtOnce => \A j \in SlotsOf(handle) : cbPc[j] = 0]_vars

\* a single-device node was released right after the poll that saw the
\* failure its callback had stored
C33_Witness ==
    /\ rv.call = "releaseReqH"
    /\ handle = NullH
    /\ nRangesOf(args) = 1
    /\ cbPc = CbIdle
    /\ inAir = 0

\* a poll ran while the callback was between its log line and its store and
\* returned NIXL_IN_PROG
C33_SeenPollDuringCallback ==
    /\ SingleNode(handle)
    /\ cbPc[0] = 2
    /\ handle.io.st = "done"
    /\ handle.pollableAsyncRV = "E_IN_TRANSFER"
    /\ rv.call = "checkXfer" /\ rv.status = "NIXL_IN_PROG"

\* C34: between engine calls every entry of the device table has a reference
\* count of at least 1, also after a close whose native disconnect failed.
C34_RefcountPositive ==
    \A d \in DOMAIN bdevs_ : bdevs_[d].ref_count >= 1

\* a close whose disconnect failed has returned and its device is in the
\* table with one reference
C34_Witness ==
    /\ DisconnectFailed
    /\ rv.devId \in DOMAIN bdevs_
    /\ bdevs_[rv.devId].ref_count = 1
    /\ Refs(rv.devId) = 0

\* C35 as claimed: between engine calls the reference count of each device
\* equals the number of registrations of process memory on that device that
\* registerMem returned and that were not yet passed to deregisterMem, and a
\* device without such a registration is absent from the table, also when
\* the native buffer unregistration or the native disconnect fails.
C35_RefcountIsRegistrations ==
    \A d \in DevIds :
        IF Refs(d) = 0 THEN d \notin DOMAIN bdevs_
        ELSE d \in DOMAIN bdevs_ /\ bdevs_[d].ref_count = Refs(d)

\* what holds: the count never falls below the number of registrations, and
\* the two part only in a registerMem or deregisterMem that returns an error
C35_RefcountCoversRegistrations ==
    /\ [](\A d \in DevIds :
            Refs(d) > 0 => (d \in DOMAIN bdevs_ /\ bdevs_[d].ref_count >= Refs(d)))
    /\ [][(C35_RefcountIsRegistrations /\ ~C35_RefcountIsRegistrations')
            => (rv'.call \in {"registerMem", "deregisterMem"}
                  /\ rv'.status # "NIXL_SUCCESS")]_vars

\* a deregisterMem whose native buffer unregistration failed has returned:
\* the registration is gone and the device still has its reference
C35_SeenLeak ==
    /\ rv.call = "deregisterMem" /\ rv.native = <<>> /\ rv.status # "NIXL_SUCCESS"
    /\ rv.devId \in DOMAIN bdevs_
    /\ bdevs_[rv.devId].ref_count = 1
    /\ Refs(rv.devId) = 0

\* the step is a registerMem call that returns an error
RegisterFails == RegStep /\ rv'.call = "registerMem" /\ rv'.status # "NIXL_SUCCESS"

\* C36 as claimed: a registerMem call that returns an error returns no
\* metadata handle and leaves the device table, entries and reference counts,
\* exactly as it was before the call; the open made for a registration of
\* process memory is undone when the native buffer registration fails.
C36_FailedRegisterLeavesTable ==
    [][RegisterFails => (mds' = mds /\ bdevs_' = bdevs_)]_vars

\* what holds: no metadata handle is returned, and the table is as before
\* unless the disconnect of the undoing close failed as well, in which case
\* the device that was absent before is left in the table with one reference
C36_UndoneUnlessDisconnectFails ==
    [][RegisterFails
         => /\ mds' = mds
            /\ \/ bdevs_' = bdevs_
               \/ /\ rv'.native = <<"bdev_connect", "bdev_disconnect">>
                  /\ rv'.devId \notin DOMAIN bdevs_
                  /\ DOMAIN bdevs_' = DOMAIN bdevs_ \cup {rv'.devId}
                  /\ bdevs_'[rv'.devId].ref_count = 1
                  /\ \A d \in DOMAIN bdevs_ : bdevs_'[d] = bdevs_[d]]_vars

\* a failed buffer registration on a device that was open already has been
\* undone: the device keeps the references of its registrations
C36_SeenUndone ==
    /\ rv.call = "registerMem" /\ rv.status # "NIXL_SUCCESS" /\ rv.native = <<>>
    /\ rv.devId \in DOMAIN bdevs_
    /\ bdevs_[rv.devId].ref_count = Refs(rv.devId)
    /\ Refs(rv.devId) = 1

\* a registerMem that returned an error has left a device in the table that
\* no registration refers to
C36_SeenLeftOpen ==
    /\ rv.call = "registerMem" /\ rv.status # "NIXL_SUCCESS"
    /\ rv.native = <<"bdev_connect", "bdev_disconnect">>
    /\ rv.devId \in DOMAIN bdevs_
    /\ Refs(rv.devId) = 0

\* the step is a registerMem or deregisterMem call on a descriptor of
\* block-device class
BlkStep(d) ==
    /\ mds'[d, "BLK_SEG"] # mds[d, "BLK_SEG"]
    /\ rv'.call \in {"registerMem", "deregisterMem"}

\* C37: registerMem and deregisterMem on a descriptor of block-device class
\* succeed without any native connect or disconnect and leave the device
\* table and every reference count unchanged, so a device that is registered
\* only as block-device class has no entry in the table.
C37_BlkLeavesTable ==
    [][\A d \in DevIds :
            BlkStep(d) => /\ bdevs_' = bdevs_
                          /\ rv'.native = <<>>
                          /\ rv'.status = "NIXL_SUCCESS"
                          /\ rv'.devId = d
                          /\ mds'[d, "DRAM_SEG"] = mds[d, "DRAM_SEG"]]_vars

\* a device is registered as block-device class and is not in the table
C37_Witness ==
    /\ rv.call = "registerMem" /\ rv.status = "NIXL_SUCCESS"
    /\ mds[rv.devId, "BLK_SEG"] = 1
    /\ Refs(rv.devId) = 0
    /\ rv.devId \notin DOMAIN bdevs_

\* C38: bdevClose of a device that is not in the table returns NIXL_SUCCESS,
\* issues no native disconnect and leaves the table as it was, and no
\* sequence of opens and closes makes an entry with a negative reference
\* count.
C38_CloseOfAbsentDevice ==
    /\ [][(rv'.call = "bdevClose" /\ rv'.devId \notin DOMAIN bdevs_)
            => /\ rv'.status = "NIXL_SUCCESS"
               /\ rv'.native = <<>>
               /\ bdevs_' = bdevs_]_vars
    /\ [](\A d \in DOMAIN bdevs_ : bdevs_[d].ref_count >= 0)

\* a device was closed that was not in the table, after its last reference
\* had gone with a successful disconnect, while the other device stayed open
C38_Witness ==
    /\ rv.call = "bdevClose" /\ rv.status = "NIXL_SUCCESS" /\ rv.native = <<>>
    /\ rv.devId \notin DOMAIN bdevs_
    /\ bdevs_ # <<>>

====
